---- MODULE Spec2Model ----
(***************************************************************************)
(* serde-hlua: conversion between serde's data model and hlua's            *)
(* AnyLuaValue.  The encoder is src/src/ser.rs (LuaSerializer and its      *)
(* aggregate builders), the decoder is src/src/de.rs (LuaDeserializer,     *)
(* is_vec and the access helpers), the entry points to_lua / from_lua are  *)
(* in src/src/lib.rs.                                                      *)
(*                                                                         *)
(* Numbers.  A Lua number is an f64 and the native integers go up to 64    *)
(* bits, so numbers are kept exactly, as sign * bits * 2^e with `bits` a   *)
(* most-significant-first binary numeral that starts and ends with 1       *)
(* (empty for zero).  An f64 is such a number with at most 53 bits, or an  *)
(* infinity, or NaN.  Negative zero is left out (it compares equal to 0).  *)
(***************************************************************************)
EXTENDS Integers, Sequences, FiniteSets, TLC

VARIABLES
    build,   \* how the toolchain compiles an out-of-range float-to-int `as`
    pc,      \* "call": the inputs are drawn, "done": the call has returned
    op,      \* the operation called
    arg,     \* its inputs
    lua,     \* the AnyLuaValue in flight: the decoder's input, the encoder's output
    ret,     \* its result
    acc,     \* the pairs held by a LuaSerializeSeq / LuaSerializeMap
    accSt,   \* that builder: "none", "open", "failed" (given up), "ended"
    accLog,  \* what the builder's last call did
    handed,  \* the LuaSeqAccess / LuaMapAccess a visitor has been handed
    yielded  \* the results of the calls made on it, in order

vars == <<build, pc, op, arg, lua, ret, acc, accSt, accLog, handed, yielded>>

(***************************************************************************)
(* Bounds of the model.                                                    *)
(***************************************************************************)
MaxPairs == 3      \* longest Table given to the decoder
MaxLen == 2        \* longest native sequence / map given to the encoder
MaxStrLen == 3     \* longest string given to deserialize_char

(***************************************************************************)
(* Exact numbers.                                                          *)
(***************************************************************************)
Bit == {0, 1}

Fin(neg, bits, e) == [cls |-> "fin", neg |-> neg, bits |-> bits, e |-> e]
Zero == Fin(FALSE, <<>>, 0)
NaN == [cls |-> "nan", neg |-> FALSE, bits |-> <<>>, e |-> 0]
Inf(neg) == [cls |-> "inf", neg |-> neg, bits |-> <<>>, e |-> 0]

RECURSIVE StripLead(_)
StripLead(b) ==
    IF b = <<>> THEN b
    ELSE IF b[1] = 1 THEN b ELSE StripLead(Tail(b))

RECURSIVE TrailZeros(_)
TrailZeros(b) ==
    IF b = <<>> THEN 0
    ELSE IF b[Len(b)] = 1 THEN 0 ELSE 1 + TrailZeros(SubSeq(b, 1, Len(b) - 1))

\* The normal form of sign * bits * 2^e.
Norm(neg, bits, e) ==
    LET b == StripLead(bits)
        z == TrailZeros(b)
    IN  IF b = <<>> THEN Zero
        ELSE Fin(neg, SubSeq(b, 1, Len(b) - z), e + z)

RECURSIVE NatBits(_)
NatBits(n) == IF n = 0 THEN <<>> ELSE NatBits(n \div 2) \o <<n % 2>>

FromNat(n) == Norm(FALSE, NatBits(n), 0)
Negate(d) == IF d = Zero THEN Zero ELSE [d EXCEPT !.neg = ~d.neg]
FromInt(i) == IF i < 0 THEN Negate(FromNat(0 - i)) ELSE FromNat(i)
Pow2(k) == Fin(FALSE, <<1>>, k)
Ones(k) == IF k = 0 THEN Zero ELSE Fin(FALSE, [i \in 1..k |-> 1], 0)   \* 2^k - 1
Half(n) == Fin(FALSE, NatBits(n), -1)                                  \* n / 2, n odd

\* Number of binary digits of the integer part's magnitude.
BitLen(d) == IF d.bits = <<>> THEN 0 ELSE Len(d.bits) + d.e

RECURSIVE Incr(_)
Incr(b) ==
    IF b = <<>> THEN <<1>>
    ELSE IF b[Len(b)] = 0 THEN [b EXCEPT ![Len(b)] = 1]
    ELSE Incr(SubSeq(b, 1, Len(b) - 1)) \o <<0>>

\* Round a finite number to p significant bits, ties to even.
RoundTo(d, p) ==
    LET L == Len(d.bits) IN
    IF L <= p THEN d
    ELSE LET head == SubSeq(d.bits, 1, p)
             guard == d.bits[p + 1]
             sticky == L > p + 1
             up == guard = 1 /\ (sticky \/ head[p] = 1)
         IN  Norm(d.neg, IF up THEN Incr(head) ELSE head, d.e + (L - p))

\* Drop the fractional part (round toward zero).
Trunc(d) ==
    IF d.e >= 0 THEN d
    ELSE IF 0 - d.e >= Len(d.bits) THEN Zero
    ELSE Norm(d.neg, SubSeq(d.bits, 1, Len(d.bits) + d.e), 0)

\* The numeral of a non-negative integer, without exponent.
Expand(d) == d.bits \o [i \in 1..d.e |-> 0]

RECURSIVE LexLess(_, _)
LexLess(a, b) ==
    IF a = <<>> THEN FALSE
    ELSE IF a[1] # b[1] THEN a[1] < b[1]
    ELSE LexLess(Tail(a), Tail(b))

\* a < b for non-negative integers.
NatLess(a, b) ==
    LET x == Expand(a)
        y == Expand(b)
    IN  IF Len(x) # Len(y) THEN Len(x) < Len(y) ELSE LexLess(x, y)

(***************************************************************************)
(* The fixed-width integer types and the `as` casts.                       *)
(***************************************************************************)
F64Bits == 53

IntTypes == {"i8", "i16", "i32", "i64", "u8", "u16", "u32", "u64"}
Signed(T) == T \in {"i8", "i16", "i32", "i64"}
Width(T) ==
    CASE T \in {"i8", "u8"} -> 8
      [] T \in {"i16", "u16"} -> 16
      [] T \in {"i32", "u32"} -> 32
      [] T \in {"i64", "u64", "usize"} -> 64

MaxOf(T) == IF Signed(T) THEN Ones(Width(T) - 1) ELSE Ones(Width(T))
MinOf(T) == IF Signed(T) THEN Negate(Pow2(Width(T) - 1)) ELSE Zero

\* d is an integer in the range of T.
InRange(T, d) ==
    /\ d.cls = "fin"
    /\ d.e >= 0
    /\ IF d.neg THEN Signed(T) /\ (BitLen(d) <= Width(T) - 1 \/ d = MinOf(T))
       ELSE BitLen(d) <= (IF Signed(T) THEN Width(T) - 1 ELSE Width(T))

\* integer `as f64`: the nearest f64, ties to even.
IntAsF64(v) == RoundTo(v, F64Bits)

\* f64 `as T`.  In range it truncates.  Out of range (and for NaN) the cast
\* saturates since Rust 1.45 and was undefined before; Builds lists the
\* outcomes, and the build in use is drawn in Init.
Builds == {"saturating", "indefinite"}

Saturate(T, x) ==
    IF x.cls = "nan" THEN Zero
    ELSE IF x.neg THEN MinOf(T) ELSE MaxOf(T)

\* What x86-64 code of the older toolchains leaves: the "integer indefinite"
\* pattern 0x80..0 of cvttsd2si, cut to the width of T.
Indefinite(T) == IF T \in {"i32", "i64"} THEN MinOf(T) ELSE Zero

F64AsInt(T, x, bld) ==
    IF x.cls = "fin" /\ InRange(T, Trunc(x)) THEN Trunc(x)
    ELSE IF bld = "saturating" THEN Saturate(T, x) ELSE Indefinite(T)

\* f64 `as f32`: the nearest f32, ties to even; 24 significant bits, fewer
\* below 2^-126 (multiples of 2^-149), infinity from 2^128 on.
F32Bits == 24

F64AsF32(x) ==
    IF x.cls # "fin" \/ x.bits = <<>> THEN x
    ELSE LET top == Len(x.bits) + x.e
             p == IF top >= -125 THEN F32Bits ELSE top + 149
         IN  IF p < 0 \/ (p = 0 /\ Len(x.bits) = 1) THEN Zero
             ELSE IF p = 0 THEN Fin(x.neg, <<1>>, -149)
             ELSE LET r == RoundTo(x, p) IN
                  IF Len(r.bits) + r.e > 128 THEN Inf(x.neg) ELSE r

\* f64 == f64: NaN equals nothing.
F64Eq(a, b) == a.cls # "nan" /\ b.cls # "nan" /\ a = b

(***************************************************************************)
(* hlua::AnyLuaValue.  A string is the sequence of its characters.         *)
(***************************************************************************)
LuaNil == [k |-> "nil"]
LuaBoolean(b) == [k |-> "bool", b |-> b]
LuaNumber(n) == [k |-> "num", n |-> n]
LuaString(s) == [k |-> "str", s |-> s]
LuaAnyString(s) == [k |-> "anystr", raw |-> s]
LuaArray(p) == [k |-> "tbl", p |-> p]
LuaOther == [k |-> "other"]

Num(i) == LuaNumber(FromInt(i))
Str(c) == LuaString(<<c>>)

(***************************************************************************)
(* Results and errors.  Both error types carry the message serde formats;  *)
(* the model keeps what the message is built from.                         *)
(***************************************************************************)
Ok(v) == [ok |-> TRUE, v |-> v]
Err(e) == [ok |-> FALSE, e |-> e]
\* the `?` of the source: an error is returned as it is, anything else is
\* passed on
AndThen(o, F(_)) == IF ~o.ok THEN o ELSE F(o)

Custom(msg) == [kind |-> "custom", msg |-> msg]
InvalidType(unexp) == [kind |-> "invalid_type", unexp |-> unexp]
InvalidLength(n) == [kind |-> "invalid_length", len |-> n]
MissingField(name) == [kind |-> "missing_field", field |-> name]
DuplicateField(name) == [kind |-> "duplicate_field", field |-> name]
UnknownVariant(tag) == [kind |-> "unknown_variant", tag |-> tag]

\* de.rs `error`: the type error naming the offending value.
error(value) ==
    InvalidType(
        CASE value.k = "str" -> [u |-> "Str", s |-> value.s]
          [] value.k = "anystr" -> [u |-> "Bytes", raw |-> value.raw]
          [] value.k = "num" -> [u |-> "Float", n |-> value.n]
          [] value.k = "bool" -> [u |-> "Bool", b |-> value.b]
          [] value.k = "tbl" -> [u |-> "Map"]
          [] value.k = "nil" -> [u |-> "Unit"]
          [] value.k = "other" -> [u |-> "Other", what |-> "unserializable"])

(***************************************************************************)
(* Native values, as serde's data model sees them.                         *)
(*   t = "int" carries the integer type ty and the exact value n.          *)
(*   A map is the sequence of its entries in iteration order, a struct the *)
(*   sequence of its <<field name, value>> in declaration order.           *)
(***************************************************************************)
VBool(b) == [t |-> "bool", b |-> b]
VInt(T, n) == [t |-> "int", ty |-> T, n |-> n]
VF64(n) == [t |-> "f64", n |-> n]
VChar(c) == [t |-> "char", c |-> c]
VStr(s) == [t |-> "str", s |-> s]
VBytes(bs) == [t |-> "bytes", bytes |-> bs]
VUnit == [t |-> "unit"]
VUnitStruct == [t |-> "unit_struct"]
VNone == [t |-> "none"]
VSome(x) == [t |-> "some", x |-> x]
VNewtype(x) == [t |-> "newtype", x |-> x]
VSeq(items) == [t |-> "seq", items |-> items]
VTuple(items) == [t |-> "tuple", items |-> items]
VMap(entries) == [t |-> "map", entries |-> entries]
VStruct(fields) == [t |-> "struct", fields |-> fields]
VUnitVariant(tag) == [t |-> "variant", kind |-> "unit", tag |-> tag]
VNewtypeVariant(tag, x) == [t |-> "variant", kind |-> "newtype", tag |-> tag, x |-> x]
VTupleVariant(tag, items) == [t |-> "variant", kind |-> "tuple", tag |-> tag, items |-> items]
VStructVariant(tag, fields) == [t |-> "variant", kind |-> "struct", tag |-> tag, fields |-> fields]

(***************************************************************************)
(* ser.rs: LuaSerializer.  An argument named r, kr or vr is the result of  *)
(* the nested `value.serialize(..)` call the method makes.                 *)
(***************************************************************************)
Lossy == Custom("value cannot be losslessly represented as lua number (f64)")

serialize_bool(v) == Ok(LuaBoolean(v))
serialize_i8(v) == Ok(LuaNumber(IntAsF64(v)))
serialize_i16(v) == Ok(LuaNumber(IntAsF64(v)))
serialize_i32(v) == Ok(LuaNumber(IntAsF64(v)))

serialize_i64(v, bld) ==
    IF F64AsInt("i64", IntAsF64(v), bld) # v THEN Err(Lossy)
    ELSE Ok(LuaNumber(IntAsF64(v)))

serialize_u8(v) == Ok(LuaNumber(IntAsF64(v)))
serialize_u16(v) == Ok(LuaNumber(IntAsF64(v)))
serialize_u32(v) == Ok(LuaNumber(IntAsF64(v)))

serialize_u64(v, bld) ==
    IF F64AsInt("u64", IntAsF64(v), bld) # v THEN Err(Lossy)
    ELSE Ok(LuaNumber(IntAsF64(v)))

serialize_f64(v) == Ok(LuaNumber(v))
serialize_char(v) == Ok(LuaString(<<v>>))
serialize_str(v) == Ok(LuaString(v))

\* built without the base64-bytes feature
\* variant: the bytes are written out as a string
M_serialize_bytes(v) == Ok(LuaString(v))

serialize_bytes(v) == Err(Custom("cannot serialize bytes; compile with 'base64-bytes'"))

serialize_none == Ok(LuaNil)
serialize_some(r) == r
serialize_unit == Ok(LuaNil)
serialize_unit_struct == Ok(LuaNil)
serialize_unit_variant(variant) == Ok(LuaString(variant))
serialize_newtype_struct(r) == r

serialize_newtype_variant(variant, r) ==
    IF ~r.ok THEN r
    ELSE Ok(LuaArray(<< <<LuaString(variant), r.v>> >>))

\* serialize_seq, serialize_tuple, serialize_tuple_struct, serialize_map,
\* serialize_struct: a builder over an empty vector.
serialize_seq == <<>>
serialize_map == <<>>

(***************************************************************************)
(* The builders.  A step returns the call's result r, the pairs acc the    *)
(* builder holds afterwards, and the events of the call in order.          *)
(***************************************************************************)
Step(r, a, events) == [r |-> r, acc |-> a, events |-> events]

\* variant: the index is the length before the push (0-based)
M_Seq_serialize_element(a, r) ==
    LET index == IntAsF64(FromNat(Len(a))) IN
    IF ~r.ok THEN Step(r, a, <<"value.serialize">>)
    ELSE Step(Ok(LuaNil), Append(a, <<LuaNumber(index), r.v>>),
              <<"value.serialize", "push">>)

\* LuaSerializeSeq::serialize_element (also tuple, tuple struct and tuple
\* variant fields, which delegate to it)
Seq_serialize_element(a, r) ==
    LET index == IntAsF64(FromNat(Len(a) + 1)) IN
    IF ~r.ok THEN Step(r, a, <<"value.serialize">>)
    ELSE Step(Ok(LuaNil), Append(a, <<LuaNumber(index), r.v>>),
              <<"value.serialize", "push">>)

\* variant: the pairs are handed back last first
M_Seq_end(a) == Ok(LuaArray([i \in 1..Len(a) |-> a[Len(a) + 1 - i]]))

Seq_end(a) == Ok(LuaArray(a))

\* variant: the fields are returned without the envelope
M_TupleVariant_end(variant, a) == Seq_end(a)

TupleVariant_end(variant, a) ==
    LET r == Seq_end(a) IN
    IF ~r.ok THEN r ELSE Ok(LuaArray(<< <<LuaString(variant), r.v>> >>))

KeyNaN == Custom("unserializable key NaN")
KeyNil == Custom("unserializable key nil")

\* the match on the encoded key in serialize_key / serialize_entry
KeyCheck(key) ==
    IF key.k = "num" /\ ~F64Eq(key.n, key.n) THEN Err(KeyNaN)
    ELSE IF key.k = "nil" THEN Err(KeyNil)
    ELSE Ok(key)

Map_serialize_key(a, kr) ==
    IF ~kr.ok THEN Step(kr, a, <<"key.serialize">>)
    ELSE IF ~KeyCheck(kr.v).ok
         THEN Step(KeyCheck(kr.v), a, <<"key.serialize", "check">>)
    ELSE Step(Ok(LuaNil), Append(a, <<kr.v, LuaNil>>),
              <<"key.serialize", "check", "push">>)

\* `self.0[len - 1].1 = value.serialize(..)?`: the value is evaluated first,
\* then the place; with no pair in the vector the index is out of bounds.
Panic(msg) == [ok |-> FALSE, panic |-> msg]

\* variant: the value is stored in the first pair
M_Map_serialize_value(a, vr) ==
    LET len == Len(a) IN
    IF ~vr.ok THEN Step(vr, a, <<"value.serialize">>)
    ELSE IF len = 0
         THEN Step(Panic("index out of bounds"), a, <<"value.serialize">>)
    ELSE Step(Ok(LuaNil), [a EXCEPT ![1] = <<a[1][1], vr.v>>],
              <<"value.serialize", "store">>)

Map_serialize_value(a, vr) ==
    LET len == Len(a) IN
    IF ~vr.ok THEN Step(vr, a, <<"value.serialize">>)
    ELSE IF len = 0
         THEN Step(Panic("index out of bounds"), a, <<"value.serialize">>)
    ELSE Step(Ok(LuaNil), [a EXCEPT ![len] = <<a[len][1], vr.v>>],
              <<"value.serialize", "store">>)

\* variant: the value is encoded before the key is checked
M_Map_serialize_entry(a, kr, vr) ==
    IF ~kr.ok THEN Step(kr, a, <<"key.serialize">>)
    ELSE IF ~vr.ok
         THEN Step(vr, a, <<"key.serialize", "value.serialize">>)
    ELSE IF ~KeyCheck(kr.v).ok
         THEN Step(KeyCheck(kr.v), a, <<"key.serialize", "value.serialize", "check">>)
    ELSE Step(Ok(LuaNil), Append(a, <<kr.v, vr.v>>),
              <<"key.serialize", "value.serialize", "check", "push">>)

\* vr is only looked at once the key has passed the check
Map_serialize_entry(a, kr, vr) ==
    IF ~kr.ok THEN Step(kr, a, <<"key.serialize">>)
    ELSE IF ~KeyCheck(kr.v).ok
         THEN Step(KeyCheck(kr.v), a, <<"key.serialize", "check">>)
    ELSE IF ~vr.ok
         THEN Step(vr, a, <<"key.serialize", "check", "value.serialize">>)
    ELSE Step(Ok(LuaNil), Append(a, <<kr.v, vr.v>>),
              <<"key.serialize", "check", "value.serialize", "push">>)

\* variant: pairs whose value is Nil are left out of the table
M_Map_end(a) == Ok(LuaArray(SelectSeq(a, LAMBDA pair : pair[2] # LuaNil)))

Map_end(a) == Ok(LuaArray(a))

\* SerializeStruct / SerializeStructVariant::serialize_field
Struct_serialize_field(a, key, vr) == Map_serialize_entry(a, serialize_str(key), vr)

StructVariant_end(variant, a) ==
    LET r == Map_end(a) IN
    IF ~r.ok THEN r ELSE Ok(LuaArray(<< <<LuaString(variant), r.v>> >>))

(***************************************************************************)
(* value.serialize(LuaSerializer::new()): serde's Serialize impls drive    *)
(* the serializer, member by member, and stop at the first error.          *)
(***************************************************************************)
RECURSIVE Serialize(_, _), SerElements(_, _, _), SerEntries(_, _, _), SerFields(_, _, _)

serialize_int(T, v, bld) ==
    CASE T = "i8" -> serialize_i8(v)
      [] T = "i16" -> serialize_i16(v)
      [] T = "i32" -> serialize_i32(v)
      [] T = "i64" -> serialize_i64(v, bld)
      [] T = "u8" -> serialize_u8(v)
      [] T = "u16" -> serialize_u16(v)
      [] T = "u32" -> serialize_u32(v)
      [] T = "u64" -> serialize_u64(v, bld)

SerElements(items, a, bld) ==
    IF items = <<>> THEN Ok(a)
    ELSE LET st == Seq_serialize_element(a, Serialize(Head(items), bld)) IN
         IF ~st.r.ok THEN st.r ELSE SerElements(Tail(items), st.acc, bld)

SerEntries(entries, a, bld) ==
    IF entries = <<>> THEN Ok(a)
    ELSE LET en == Head(entries)
             st == Map_serialize_entry(a, Serialize(en[1], bld), Serialize(en[2], bld))
         IN  IF ~st.r.ok THEN st.r ELSE SerEntries(Tail(entries), st.acc, bld)

SerFields(fields, a, bld) ==
    IF fields = <<>> THEN Ok(a)
    ELSE LET fd == Head(fields)
             st == Struct_serialize_field(a, fd[1], Serialize(fd[2], bld))
         IN  IF ~st.r.ok THEN st.r ELSE SerFields(Tail(fields), st.acc, bld)

Serialize(v, bld) ==
    CASE v.t = "bool" -> serialize_bool(v.b)
      [] v.t = "int" -> serialize_int(v.ty, v.n, bld)
      [] v.t = "f64" -> serialize_f64(v.n)
      [] v.t = "char" -> serialize_char(v.c)
      [] v.t = "str" -> serialize_str(v.s)
      [] v.t = "bytes" -> serialize_bytes(v.bytes)
      [] v.t = "none" -> serialize_none
      [] v.t = "some" -> serialize_some(Serialize(v.x, bld))
      [] v.t = "unit" -> serialize_unit
      [] v.t = "unit_struct" -> serialize_unit_struct
      [] v.t = "newtype" -> serialize_newtype_struct(Serialize(v.x, bld))
      [] v.t \in {"seq", "tuple"} ->
            LET r == SerElements(v.items, serialize_seq, bld) IN
            IF ~r.ok THEN r ELSE Seq_end(r.v)
      [] v.t = "map" ->
            LET r == SerEntries(v.entries, serialize_map, bld) IN
            IF ~r.ok THEN r ELSE Map_end(r.v)
      [] v.t = "struct" ->
            LET r == SerFields(v.fields, serialize_map, bld) IN
            IF ~r.ok THEN r ELSE Map_end(r.v)
      [] v.t = "variant" /\ v.kind = "unit" -> serialize_unit_variant(v.tag)
      [] v.t = "variant" /\ v.kind = "newtype" ->
            serialize_newtype_variant(v.tag, Serialize(v.x, bld))
      [] v.t = "variant" /\ v.kind = "tuple" ->
            LET r == SerElements(v.items, serialize_seq, bld) IN
            IF ~r.ok THEN r ELSE TupleVariant_end(v.tag, r.v)
      [] v.t = "variant" /\ v.kind = "struct" ->
            LET r == SerFields(v.fields, serialize_map, bld) IN
            IF ~r.ok THEN r ELSE StructVariant_end(v.tag, r.v)

\* lib.rs
to_lua(value, bld) == Serialize(value, bld)

(***************************************************************************)
(* de.rs: LuaDeserializer.  A deserialize_* method either fails or calls   *)
(* one method of the visitor it was given; Visit* records that call and    *)
(* what it was handed.                                                     *)
(***************************************************************************)
VisitBool(b) == [ok |-> TRUE, visit |-> "bool", b |-> b]
VisitInt(T, n) == [ok |-> TRUE, visit |-> T, n |-> n]
VisitF32(n) == [ok |-> TRUE, visit |-> "f32", n |-> n]
VisitF64(n) == [ok |-> TRUE, visit |-> "f64", n |-> n]
VisitChar(c) == [ok |-> TRUE, visit |-> "char", c |-> c]
VisitStr(s) == [ok |-> TRUE, visit |-> "str", s |-> s]
VisitString(s) == [ok |-> TRUE, visit |-> "string", s |-> s]
VisitNone == [ok |-> TRUE, visit |-> "none"]
VisitSome(d) == [ok |-> TRUE, visit |-> "some", d |-> d]
VisitUnit == [ok |-> TRUE, visit |-> "unit"]
VisitNewtypeStruct(d) == [ok |-> TRUE, visit |-> "newtype_struct", d |-> d]
VisitSeq(access) == [ok |-> TRUE, visit |-> "seq", access |-> access]
VisitMap(access) == [ok |-> TRUE, visit |-> "map", access |-> access]
VisitEnum(access) == [ok |-> TRUE, visit |-> "enum", access |-> access]

OptNone == [some |-> FALSE]
OptSome(x) == [some |-> TRUE, x |-> x]

\* the access helpers as they are constructed
LuaSeqAccess(iter) == [iter |-> iter]
LuaMapAccess(iter, pending) == [iter |-> iter, pending |-> pending]
LuaEnumAccess(key, value) == [key |-> key, value |-> value]
LuaVariantAccess(value) == [value |-> value]

\* Vec::sort_by_key (stable): insert each pair after the pairs whose key is
\* not greater.
RECURSIVE InsertByKey(_, _, _)
InsertByKey(sorted, pair, bld) ==
    IF sorted = <<>> THEN <<pair>>
    ELSE IF NatLess(F64AsInt("usize", pair[1].n, bld),
                    F64AsInt("usize", Head(sorted)[1].n, bld))
         THEN <<pair>> \o sorted
    ELSE <<Head(sorted)>> \o InsertByKey(Tail(sorted), pair, bld)

\* variant: the pairs come back last first
M_SortByKey(array, bld) == [i \in 1..Len(array) |-> array[Len(array) + 1 - i]]

RECURSIVE SortByKey(_, _)
SortByKey(array, bld) ==
    IF array = <<>> THEN <<>>
    ELSE InsertByKey(SortByKey(SubSeq(array, 1, Len(array) - 1), bld),
                     array[Len(array)], bld)

\* variant: the membership test alone, any key that is a whole number passes
M_KeyAtPosition(key, index, bld) ==
    /\ key.k = "num"
    /\ F64Eq(IntAsF64(F64AsInt("usize", key.n, bld)), key.n)

\* the test is_vec applies to the key at 0-based position `index`
KeyAtPosition(key, index, bld) ==
    /\ key.k = "num"
    /\ F64Eq(IntAsF64(F64AsInt("usize", key.n, bld)), key.n)
    /\ F64Eq(key.n, IntAsF64(FromNat(index + 1)))

\* variant: the failure branch hands back the sorted pairs
M_is_vec(array, bld) ==
    IF \E i \in 1..Len(array) : array[i][1].k # "num" THEN Err(array)
    ELSE LET sorted == SortByKey(array, bld)
             is_array == \A i \in 1..Len(array) : KeyAtPosition(array[i][1], i - 1, bld)
         IN  IF is_array THEN Ok(sorted) ELSE Err(sorted)

is_vec(array, bld) ==
    IF \E i \in 1..Len(array) : array[i][1].k # "num" THEN Err(array)
    ELSE LET sorted == SortByKey(array, bld)
             is_array == \A i \in 1..Len(array) : KeyAtPosition(array[i][1], i - 1, bld)
         IN  IF is_array THEN Ok(sorted) ELSE Err(array)

\* variant: a table with no pairs is handed over as a map
M_deserialize_any(value, bld) ==
    CASE value.k = "str" -> VisitString(value.s)
      [] value.k = "anystr" -> Err(InvalidType([u |-> "Other", what |-> "non-utf-8 string"]))
      [] value.k = "num" -> VisitF64(value.n)
      [] value.k = "bool" -> VisitBool(value.b)
      [] value.k = "tbl" ->
            LET r == is_vec(value.p, bld) IN
            IF r.ok /\ value.p # <<>> THEN VisitSeq(LuaSeqAccess(r.v))
            ELSE VisitMap(LuaMapAccess(value.p, OptNone))
      [] value.k = "nil" -> VisitUnit
      [] OTHER -> Err(error(value))

deserialize_any(value, bld) ==
    CASE value.k = "str" -> VisitString(value.s)
      [] value.k = "anystr" -> Err(InvalidType([u |-> "Other", what |-> "non-utf-8 string"]))
      [] value.k = "num" -> VisitF64(value.n)
      [] value.k = "bool" -> VisitBool(value.b)
      [] value.k = "tbl" ->
            LET r == is_vec(value.p, bld) IN
            IF r.ok THEN VisitSeq(LuaSeqAccess(r.v))
            ELSE VisitMap(LuaMapAccess(r.e, OptNone))
      [] value.k = "nil" -> VisitUnit
      [] OTHER -> Err(error(value))

\* variant: Nil is taken for false
M_deserialize_bool(value) ==
    IF value.k = "bool" THEN VisitBool(value.b)
    ELSE IF value.k = "nil" THEN VisitBool(FALSE)
    ELSE Err(error(value))

deserialize_bool(value) ==
    IF value.k = "bool" THEN VisitBool(value.b) ELSE Err(error(value))

\* deserialize_i8 .. deserialize_u64 differ in the type T only
deserialize_int(T, value, bld) ==
    IF value.k = "num" /\ F64Eq(IntAsF64(F64AsInt(T, value.n, bld)), value.n)
    THEN VisitInt(T, F64AsInt(T, value.n, bld))
    ELSE Err(error(value))

deserialize_i8(value, bld) == deserialize_int("i8", value, bld)
deserialize_i16(value, bld) == deserialize_int("i16", value, bld)
deserialize_i32(value, bld) == deserialize_int("i32", value, bld)
deserialize_i64(value, bld) == deserialize_int("i64", value, bld)
deserialize_u8(value, bld) == deserialize_int("u8", value, bld)
deserialize_u16(value, bld) == deserialize_int("u16", value, bld)
deserialize_u32(value, bld) == deserialize_int("u32", value, bld)
deserialize_u64(value, bld) == deserialize_int("u64", value, bld)

deserialize_f32(value) ==
    IF value.k = "num" THEN VisitF32(F64AsF32(value.n)) ELSE Err(error(value))

deserialize_f64(value) ==
    IF value.k = "num" THEN VisitF64(value.n) ELSE Err(error(value))

\* variant: the reported length is 1 + count() of what is left
M_deserialize_char(value) ==
    IF value.k = "str" THEN
        LET string == value.s IN
        IF string # <<>> THEN
            LET character == Head(string)
                rest == Tail(string)
            IN  IF rest # <<>> THEN Err(InvalidLength(1 + Len(Tail(rest))))
                ELSE VisitChar(character)
        ELSE Err(InvalidLength(0))
    ELSE Err(error(value))

\* chars().next(), chars().next(), then 2 + count() of what is left
deserialize_char(value) ==
    IF value.k = "str" THEN
        LET string == value.s IN
        IF string # <<>> THEN
            LET character == Head(string)
                rest == Tail(string)
            IN  IF rest # <<>> THEN Err(InvalidLength(2 + Len(Tail(rest))))
                ELSE VisitChar(character)
        ELSE Err(InvalidLength(0))
    ELSE Err(error(value))

deserialize_str(value) ==
    IF value.k = "str" THEN VisitStr(value.s) ELSE Err(error(value))

deserialize_string(value) ==
    IF value.k = "str" THEN VisitString(value.s) ELSE Err(error(value))

\* built without the base64-bytes feature
deserialize_bytes(value) ==
    Err(Custom("cannot deserialize bytes; compile with 'base64-bytes'"))

deserialize_byte_buf(value) ==
    Err(Custom("cannot deserialize byte_buf; compile with 'base64-bytes'"))

deserialize_option(value) ==
    IF value.k = "nil" THEN VisitNone ELSE VisitSome(value)

\* a unit decode that lets the opaque kind pass for ()
M_deserialize_unit(value) ==
    IF value.k \in {"nil", "other"} THEN VisitUnit ELSE Err(error(value))

deserialize_unit(value) ==
    IF value.k = "nil" THEN VisitUnit ELSE Err(error(value))

deserialize_unit_struct(value) ==
    IF value.k = "nil" THEN VisitUnit ELSE Err(error(value))

deserialize_newtype_struct(value) == VisitNewtypeStruct(value)

deserialize_seq(value, bld) ==
    IF value.k = "tbl" THEN
        LET r == is_vec(value.p, bld) IN
        IF r.ok THEN VisitSeq(LuaSeqAccess(r.v))
        ELSE Err(InvalidType([u |-> "Map"]))
    ELSE Err(error(value))

\* variant: the invalid-length error reports the arity that was asked for
M_deserialize_tuple(value, len, bld) ==
    IF value.k = "tbl" THEN
        IF Len(value.p) # len THEN Err(InvalidLength(len))
        ELSE LET r == is_vec(value.p, bld) IN
             IF r.ok THEN VisitSeq(LuaSeqAccess(r.v))
             ELSE Err(InvalidType([u |-> "Map"]))
    ELSE Err(error(value))

deserialize_tuple(value, len, bld) ==
    IF value.k = "tbl" THEN
        IF Len(value.p) # len THEN Err(InvalidLength(Len(value.p)))
        ELSE LET r == is_vec(value.p, bld) IN
             IF r.ok THEN VisitSeq(LuaSeqAccess(r.v))
             ELSE Err(InvalidType([u |-> "Map"]))
    ELSE Err(error(value))

deserialize_tuple_struct(value, len, bld) == deserialize_tuple(value, len, bld)

\* variant: a Table with the keys of an array is not taken for a map
M_deserialize_map(value) ==
    IF value.k = "tbl" THEN
        IF \A i \in 1..Len(value.p) : value.p[i][1] = Num(i)
        THEN Err(InvalidType([u |-> "Seq"]))
        ELSE VisitMap(LuaMapAccess(value.p, OptNone))
    ELSE Err(error(value))

deserialize_map(value) ==
    IF value.k = "tbl" THEN VisitMap(LuaMapAccess(value.p, OptNone))
    ELSE Err(error(value))

\* variant: a Table with no pair is not taken for a struct
M_deserialize_struct(value) ==
    IF value.k = "tbl" /\ value.p # <<>> THEN deserialize_map(value)
    ELSE Err(error(value))

deserialize_struct(value) == deserialize_map(value)

\* variant: only the Table with no entry is rejected for its length
M_deserialize_enum(value) ==
    CASE value.k = "str" -> VisitEnum(LuaEnumAccess(LuaString(value.s), LuaNil))
      [] value.k = "tbl" ->
            IF Len(value.p) = 0 THEN Err(InvalidLength(Len(value.p)))
            ELSE VisitEnum(LuaEnumAccess(value.p[1][1], value.p[1][2]))
      [] OTHER -> Err(error(value))

deserialize_enum(value) ==
    CASE value.k = "str" -> VisitEnum(LuaEnumAccess(LuaString(value.s), LuaNil))
      [] value.k = "tbl" ->
            IF Len(value.p) # 1 THEN Err(InvalidLength(Len(value.p)))
            ELSE VisitEnum(LuaEnumAccess(value.p[1][1], value.p[1][2]))
      [] OTHER -> Err(error(value))

deserialize_identifier(value) == deserialize_string(value)
deserialize_ignored_any(value, bld) == deserialize_any(value, bld)

(***************************************************************************)
(* The types a consumer asks for.  serde's Deserialize impl of the type    *)
(* picks the deserialize_* method and supplies the visitor.                *)
(*   struct fields: [name, ty, mode], mode "required", "default" (serde    *)
(*   default) or "skip" (serde skip);  enum variants: UnitV .. StructV.    *)
(***************************************************************************)
TBool == [t |-> "bool"]
TInt(T) == [t |-> "int", ty |-> T]
TF64 == [t |-> "f64"]
TChar == [t |-> "char"]
TString == [t |-> "str"]
TUnit == [t |-> "unit"]
TBytes == [t |-> "bytes"]        \* a consumer that asks for bytes (&[u8])
TByteBuf == [t |-> "byte_buf"]   \* a consumer that asks for a byte buffer
TOption(x) == [t |-> "option", of |-> x]
TNewtype(x) == [t |-> "newtype", of |-> x]
TSeq(x) == [t |-> "seq", of |-> x]
TTuple(elems) == [t |-> "tuple", elems |-> elems]
TMap(K, V) == [t |-> "map", key |-> K, val |-> V]
TStruct(fields) == [t |-> "struct", fields |-> fields]
TEnum(variants) == [t |-> "enum", variants |-> variants]
TAny == [t |-> "any"]            \* a self-describing consumer (deserialize_any)
TIgnored == [t |-> "ignored"]    \* serde::de::IgnoredAny
TFieldIdent(fields) == [t |-> "field", fields |-> fields]
TVariantIdent(variants) == [t |-> "variant_ident", variants |-> variants]

Field(name, ty, mode) == [name |-> name, ty |-> ty, mode |-> mode]
UnitV(tag) == [tag |-> tag, kind |-> "unit"]
NewtypeV(tag, ty) == [tag |-> tag, kind |-> "newtype", of |-> ty]
TupleV(tag, elems) == [tag |-> tag, kind |-> "tuple", elems |-> elems]
StructV(tag, fields) == [tag |-> tag, kind |-> "struct", fields |-> fields]

VIgnored == [t |-> "ignored"]
VIdent(idx) == [t |-> "ident", idx |-> idx]

\* index of the field / variant called s, 0 if there is none
FieldIndex(fields, s) ==
    LET hits == {i \in 1..Len(fields) : fields[i].name = s /\ fields[i].mode # "skip"}
    IN  IF hits = {} THEN 0 ELSE CHOOSE i \in hits : \A j \in hits : i <= j

VariantIndex(variants, s) ==
    LET hits == {i \in 1..Len(variants) : variants[i].tag = s}
    IN  IF hits = {} THEN 0 ELSE CHOOSE i \in hits : \A j \in hits : i <= j

\* Default::default() of the types used for defaulted fields
DefaultOf(ty) ==
    CASE ty.t = "bool" -> VBool(FALSE)
      [] ty.t = "int" -> VInt(ty.ty, Zero)
      [] ty.t = "str" -> VStr(<<>>)
      [] ty.t = "option" -> VNone
      [] ty.t = "seq" -> VSeq(<<>>)
      [] OTHER -> VUnit

RECURSIVE Deserialize(_, _, _), next_element_seed(_, _, _), next_key_seed(_, _, _),
          next_value_seed(_, _, _), next_entry_seed(_, _, _, _),
          CollectSeq(_, _, _, _), CollectTuple(_, _, _, _), CollectEntries(_, _, _, _, _),
          CollectKeyValue(_, _, _, _, _), StructLoop(_, _, _, _), FromMap(_, _, _),
          VisitVariant(_, _, _)

(***************************************************************************)
(* de.rs: LuaSeqAccess, LuaMapAccess, LuaEnumAccess, LuaVariantAccess.     *)
(* A call returns its result r and the access as it is left.               *)
(***************************************************************************)
\* an accessor that takes an element that fails to decode for the end of
\* the sequence
M_next_element_seed(access, seed, bld) ==
    IF access.iter = <<>> THEN [r |-> Ok(OptNone), access |-> access]
    ELSE [r |-> IF Deserialize(seed, Head(access.iter)[2], bld).ok
                THEN Ok(OptSome(Deserialize(seed, Head(access.iter)[2], bld).v))
                ELSE Ok(OptNone),
          access |-> LuaSeqAccess(Tail(access.iter))]

next_element_seed(access, seed, bld) ==
    IF access.iter = <<>> THEN [r |-> Ok(OptNone), access |-> access]
    ELSE [r |-> AndThen(Deserialize(seed, Head(access.iter)[2], bld),
                        LAMBDA d : Ok(OptSome(d.v))),
          access |-> LuaSeqAccess(Tail(access.iter))]

\* variant: the hint leaves out the element that comes next
M_Seq_size_hint(access) == IF access.iter = <<>> THEN 0 ELSE Len(access.iter) - 1

Seq_size_hint(access) == Len(access.iter)

\* variant: a value that was not taken stays in place of the new one
M_next_key_seed(access, seed, bld) ==
    IF access.iter = <<>> THEN [r |-> Ok(OptNone), access |-> access]
    ELSE [r |-> AndThen(Deserialize(seed, Head(access.iter)[1], bld),
                        LAMBDA d : Ok(OptSome(d.v))),
          access |-> LuaMapAccess(Tail(access.iter),
                                  IF access.pending.some THEN access.pending
                                  ELSE OptSome(Head(access.iter)[2]))]

next_key_seed(access, seed, bld) ==
    IF access.iter = <<>> THEN [r |-> Ok(OptNone), access |-> access]
    ELSE [r |-> AndThen(Deserialize(seed, Head(access.iter)[1], bld),
                        LAMBDA d : Ok(OptSome(d.v))),
          access |-> LuaMapAccess(Tail(access.iter), OptSome(Head(access.iter)[2]))]

\* self.1.take().unwrap()
next_value_seed(access, seed, bld) ==
    IF ~access.pending.some
    THEN [r |-> Panic("called Option::unwrap() on a None value"), access |-> access]
    ELSE [r |-> Deserialize(seed, access.pending.x, bld),
          access |-> LuaMapAccess(access.iter, OptNone)]

next_entry_seed(access, kseed, vseed, bld) ==
    IF access.iter = <<>> THEN [r |-> Ok(OptNone), access |-> access]
    ELSE [r |-> AndThen(Deserialize(kseed, Head(access.iter)[1], bld),
                        LAMBDA kd :
                            AndThen(Deserialize(vseed, Head(access.iter)[2], bld),
                                    LAMBDA vd : Ok(OptSome(<<kd.v, vd.v>>)))),
          access |-> LuaMapAccess(Tail(access.iter), access.pending)]

Map_size_hint(access) == Len(access.iter)

variant_seed(access, seed, bld) ==
    LET d == Deserialize(seed, access.key, bld) IN
    IF ~d.ok THEN d ELSE Ok([id |-> d.v, variant |-> LuaVariantAccess(access.value)])

\* variant: the payload is not looked at
M_unit_variant(va) == Ok(VUnit)

unit_variant(va) ==
    IF va.value.k = "nil" THEN Ok(VUnit) ELSE Err(error(va.value))

newtype_variant_seed(va, seed, bld) == Deserialize(seed, va.value, bld)
tuple_variant(va, len, bld) == deserialize_tuple(va.value, len, bld)
struct_variant(va) == deserialize_struct(va.value)

(***************************************************************************)
(* The visitors of serde and serde_derive, as far as they drive the access *)
(* helpers.                                                                *)
(***************************************************************************)
\* Vec<T>: next_element until None
CollectSeq(access, seed, out, bld) ==
    LET st == next_element_seed(access, seed, bld) IN
    IF ~st.r.ok THEN st.r
    ELSE IF ~st.r.v.some THEN Ok(out)
    ELSE CollectSeq(st.access, seed, Append(out, st.r.v.x), bld)

\* tuples: one next_element per position, invalid_length(i) when it is missing
CollectTuple(access, elems, out, bld) ==
    IF Len(out) = Len(elems) THEN Ok(out)
    ELSE LET st == next_element_seed(access, elems[Len(out) + 1], bld) IN
         IF ~st.r.ok THEN st.r
         ELSE IF ~st.r.v.some THEN Err(InvalidLength(Len(out)))
         ELSE CollectTuple(st.access, elems, Append(out, st.r.v.x), bld)

\* maps: next_entry until None
CollectEntries(access, kseed, vseed, out, bld) ==
    LET st == next_entry_seed(access, kseed, vseed, bld) IN
    IF ~st.r.ok THEN st.r
    ELSE IF ~st.r.v.some THEN Ok(out)
    ELSE CollectEntries(st.access, kseed, vseed, Append(out, st.r.v.x), bld)

\* self-describing maps: next_key, then next_value
CollectKeyValue(access, kseed, vseed, out, bld) ==
    LET ks == next_key_seed(access, kseed, bld) IN
    IF ~ks.r.ok THEN ks.r
    ELSE IF ~ks.r.v.some THEN Ok(out)
    ELSE LET vs == next_value_seed(ks.access, vseed, bld) IN
         IF ~vs.r.ok THEN vs.r
         ELSE CollectKeyValue(vs.access, kseed, vseed,
                              Append(out, <<ks.r.v.x, vs.r.v>>), bld)

\* derived struct visitor, visit_map: next_key gives the field, next_value
\* its value (IgnoredAny for a key that names no field)
StructLoop(access, fields, slots, bld) ==
    LET ks == next_key_seed(access, TFieldIdent(fields), bld) IN
    IF ~ks.r.ok THEN ks.r
    ELSE IF ~ks.r.v.some THEN Ok(slots)
    ELSE LET i == ks.r.v.x.idx IN
         IF i = 0 THEN
            LET vs == next_value_seed(ks.access, TIgnored, bld) IN
            IF ~vs.r.ok THEN vs.r ELSE StructLoop(vs.access, fields, slots, bld)
         ELSE IF slots[i].some THEN Err(DuplicateField(fields[i].name))
         ELSE LET vs == next_value_seed(ks.access, fields[i].ty, bld) IN
              IF ~vs.r.ok THEN vs.r
              ELSE StructLoop(vs.access, fields,
                              [slots EXCEPT ![i] = OptSome(vs.r.v)], bld)

\* what the derived visitor puts into field i once the map is exhausted
FieldValue(fields, slots, i) ==
    IF slots[i].some THEN Ok(slots[i].x)
    ELSE IF fields[i].mode \in {"default", "skip"} THEN Ok(DefaultOf(fields[i].ty))
    ELSE IF fields[i].ty.t = "option" THEN Ok(VNone)
    ELSE Err(MissingField(fields[i].name))

FromMap(access, fields, bld) ==
    LET r == StructLoop(access, fields, [i \in 1..Len(fields) |-> OptNone], bld) IN
    IF ~r.ok THEN r
    ELSE LET bad == {i \in 1..Len(fields) : ~FieldValue(fields, r.v, i).ok} IN
         IF bad # {}
         THEN FieldValue(fields, r.v, CHOOSE i \in bad : \A j \in bad : i <= j)
         ELSE Ok([i \in 1..Len(fields) |->
                    <<fields[i].name, FieldValue(fields, r.v, i).v>>])

\* derived enum visitor, visit_enum: the variant that was named takes its
\* payload from the variant access
VisitVariant(var, va, bld) ==
    CASE var.kind = "unit" ->
            AndThen(unit_variant(va), LAMBDA u : Ok(VUnitVariant(var.tag)))
      [] var.kind = "newtype" ->
            AndThen(newtype_variant_seed(va, var.of, bld),
                    LAMBDA d : Ok(VNewtypeVariant(var.tag, d.v)))
      [] var.kind = "tuple" ->
            AndThen(tuple_variant(va, Len(var.elems), bld),
                    LAMBDA t : AndThen(CollectTuple(t.access, var.elems, <<>>, bld),
                                       LAMBDA r : Ok(VTupleVariant(var.tag, r.v))))
      [] var.kind = "struct" ->
            AndThen(struct_variant(va),
                    LAMBDA t : AndThen(FromMap(t.access, var.fields, bld),
                                       LAMBDA r : Ok(VStructVariant(var.tag, r.v))))

Deserialize(ty, value, bld) ==
    CASE ty.t = "bool" ->
            AndThen(deserialize_bool(value), LAMBDA o : Ok(VBool(o.b)))
      [] ty.t = "int" ->
            AndThen((CASE ty.ty = "i8" -> deserialize_i8(value, bld)
                       [] ty.ty = "i16" -> deserialize_i16(value, bld)
                       [] ty.ty = "i32" -> deserialize_i32(value, bld)
                       [] ty.ty = "i64" -> deserialize_i64(value, bld)
                       [] ty.ty = "u8" -> deserialize_u8(value, bld)
                       [] ty.ty = "u16" -> deserialize_u16(value, bld)
                       [] ty.ty = "u32" -> deserialize_u32(value, bld)
                       [] ty.ty = "u64" -> deserialize_u64(value, bld)),
                    LAMBDA o : Ok(VInt(ty.ty, o.n)))
      [] ty.t = "f64" ->
            AndThen(deserialize_f64(value), LAMBDA o : Ok(VF64(o.n)))
      [] ty.t = "char" ->
            AndThen(deserialize_char(value), LAMBDA o : Ok(VChar(o.c)))
      [] ty.t = "str" ->
            AndThen(deserialize_string(value), LAMBDA o : Ok(VStr(o.s)))
      [] ty.t = "bytes" ->
            AndThen(deserialize_bytes(value), LAMBDA o : Ok(VBytes(o.bytes)))
      [] ty.t = "byte_buf" ->
            AndThen(deserialize_byte_buf(value), LAMBDA o : Ok(VBytes(o.bytes)))
      [] ty.t = "unit" ->
            AndThen(deserialize_unit(value), LAMBDA o : Ok(VUnit))
      [] ty.t = "option" ->
            AndThen(deserialize_option(value),
                    LAMBDA o : IF o.visit = "none" THEN Ok(VNone)
                               ELSE AndThen(Deserialize(ty.of, o.d, bld),
                                            LAMBDA d : Ok(VSome(d.v))))
      [] ty.t = "newtype" ->
            AndThen(deserialize_newtype_struct(value),
                    LAMBDA o : AndThen(Deserialize(ty.of, o.d, bld),
                                       LAMBDA d : Ok(VNewtype(d.v))))
      [] ty.t = "seq" ->
            AndThen(deserialize_seq(value, bld),
                    LAMBDA o : AndThen(CollectSeq(o.access, ty.of, <<>>, bld),
                                       LAMBDA r : Ok(VSeq(r.v))))
      [] ty.t = "tuple" ->
            AndThen(deserialize_tuple(value, Len(ty.elems), bld),
                    LAMBDA o : AndThen(CollectTuple(o.access, ty.elems, <<>>, bld),
                                       LAMBDA r : Ok(VTuple(r.v))))
      [] ty.t = "map" ->
            AndThen(deserialize_map(value),
                    LAMBDA o : AndThen(CollectEntries(o.access, ty.key, ty.val, <<>>, bld),
                                       LAMBDA r : Ok(VMap(r.v))))
      [] ty.t = "struct" ->
            AndThen(deserialize_struct(value),
                    LAMBDA o : AndThen(FromMap(o.access, ty.fields, bld),
                                       LAMBDA r : Ok(VStruct(r.v))))
      [] ty.t = "enum" ->
            AndThen(deserialize_enum(value),
                    LAMBDA o : AndThen(variant_seed(o.access, TVariantIdent(ty.variants), bld),
                                       LAMBDA vr : VisitVariant(ty.variants[vr.v.id.idx],
                                                                vr.v.variant, bld)))
      [] ty.t = "field" ->
            AndThen(deserialize_identifier(value),
                    LAMBDA o : Ok(VIdent(FieldIndex(ty.fields, o.s))))
      [] ty.t = "variant_ident" ->
            AndThen(deserialize_identifier(value),
                    LAMBDA o : IF VariantIndex(ty.variants, o.s) = 0
                               THEN Err(UnknownVariant(o.s))
                               ELSE Ok(VIdent(VariantIndex(ty.variants, o.s))))
      [] ty.t \in {"any", "ignored"} ->
            LET keep(v) == IF ty.t = "any" THEN Ok(v) ELSE Ok(VIgnored) IN
            AndThen(IF ty.t = "any" THEN deserialize_any(value, bld)
                    ELSE deserialize_ignored_any(value, bld),
                    LAMBDA o :
                        CASE o.visit = "string" -> keep(VStr(o.s))
                          [] o.visit = "f64" -> keep(VF64(o.n))
                          [] o.visit = "bool" -> keep(VBool(o.b))
                          [] o.visit = "unit" -> keep(VUnit)
                          [] o.visit = "seq" ->
                                AndThen(CollectSeq(o.access, ty, <<>>, bld),
                                        LAMBDA r : keep(VSeq(r.v)))
                          [] o.visit = "map" ->
                                AndThen(IF ty.t = "any"
                                        THEN CollectKeyValue(o.access, ty, ty, <<>>, bld)
                                        ELSE CollectEntries(o.access, ty, ty, <<>>, bld),
                                        LAMBDA r : keep(VMap(r.v))))

\* lib.rs
from_lua(ty, value, bld) == Deserialize(ty, value, bld)

(***************************************************************************)
(* Inputs.                                                                 *)
(***************************************************************************)
SeqsUpTo(S, n) == UNION {[1..k -> S] : k \in 0..n}

\* 2^hi + 2^lo
TwoBits(hi, lo) == Fin(FALSE, <<1>> \o [i \in 1..(hi - lo - 1) |-> 0] \o <<1>>, lo)
\* 2^hi - 2^lo
OnesFrom(hi, lo) == Fin(FALSE, [i \in 1..(hi - lo) |-> 1], lo)

\* native integers given to the encoder
IntSamples(T) ==
    {Zero, FromNat(1), MaxOf(T), MinOf(T)}
    \cup (IF Signed(T) THEN {FromInt(-1)} ELSE {})
    \cup (IF Width(T) = 64
          THEN {Pow2(53), TwoBits(53, 0), OnesFrom(53, 0), OnesFrom(63, 10),
                OnesFrom(63, 1), Pow2(62)}
          ELSE {})
    \cup (IF T = "i64" THEN {Negate(Ones(63)), Negate(TwoBits(53, 0)), Negate(Pow2(53))}
          ELSE {})
    \cup (IF T = "u64" THEN {Pow2(63), TwoBits(63, 11), TwoBits(63, 0), OnesFrom(64, 11)}
          ELSE {})

\* f64s given to the decoder
NumberSamples ==
    {FromInt(i) : i \in {-129, -128, -1, 0, 1, 2, 3, 127, 128, 255, 256,
                         32767, 32768, 65535, 65536}}
    \cup {Half(1), Half(3), Negate(Half(1)), Negate(Half(3)), Negate(Pow2(15)),
          Negate(TwoBits(15, 0)),
          Ones(31), Pow2(31), Negate(Pow2(31)), Negate(TwoBits(31, 0)),
          Ones(32), Pow2(32), Ones(53), Pow2(53),
          OnesFrom(63, 10), Pow2(63), Negate(Pow2(63)), Negate(TwoBits(63, 11)),
          TwoBits(63, 11), OnesFrom(64, 11), Pow2(64), Pow2(65),
          NaN, Inf(FALSE), Inf(TRUE)}

StrSamples == {<<>>, <<"a">>, <<"a", "b">>}
CharSamples == {"a", "b"}

RECURSIVE ValuesOf(_), Products(_), MemberValues(_)

\* all tuples with one value of each type
Products(elems) ==
    IF elems = <<>> THEN {<<>>}
    ELSE {<<x>> \o rest : x \in ValuesOf(Head(elems)), rest \in Products(Tail(elems))}

DistinctKeys(entries) ==
    \A i, j \in 1..Len(entries) : i # j => entries[i][1] # entries[j][1]

VariantValues(var) ==
    CASE var.kind = "unit" -> {VUnitVariant(var.tag)}
      [] var.kind = "newtype" -> {VNewtypeVariant(var.tag, x) : x \in ValuesOf(var.of)}
      [] var.kind = "tuple" -> {VTupleVariant(var.tag, xs) : xs \in Products(var.elems)}
      [] var.kind = "struct" ->
            {VStructVariant(var.tag, [i \in 1..Len(var.fields) |-> <<var.fields[i].name, xs[i]>>]) :
                xs \in Products([i \in 1..Len(var.fields) |-> var.fields[i].ty])}

\* the members sequences and maps are filled with: of an integer type the
\* value 1 and a value with more than 53 significant bits where the type has
\* one (its greatest value otherwise), of another type all values
MemberValues(ty) ==
    IF ty.t = "int"
    THEN {VInt(ty.ty, FromNat(1)),
          VInt(ty.ty, CASE ty.ty = "i64" -> Negate(Ones(63))
                        [] ty.ty = "u64" -> TwoBits(63, 0)
                        [] OTHER -> MaxOf(ty.ty))}
    ELSE ValuesOf(ty)

\* the native values of a type, sequences and maps up to MaxLen members
ValuesOf(ty) ==
    CASE ty.t = "bool" -> {VBool(TRUE), VBool(FALSE)}
      [] ty.t = "int" ->
            {VInt(ty.ty, n) : n \in IF Width(ty.ty) = 64 THEN IntSamples(ty.ty)
                                    ELSE {Zero, FromNat(1), MaxOf(ty.ty), MinOf(ty.ty)}}
      [] ty.t = "f64" -> {VF64(NaN), VF64(Half(3))}
      [] ty.t = "char" -> {VChar(c) : c \in CharSamples}
      [] ty.t = "str" -> {VStr(x) : x \in StrSamples}
      [] ty.t = "unit" -> {VUnit}
      [] ty.t = "bytes" -> {VBytes(<<>>), VBytes(<<0>>), VBytes(<<104, 105>>)}
      [] ty.t = "option" -> {VNone} \cup {VSome(x) : x \in ValuesOf(ty.of)}
      [] ty.t = "newtype" -> {VNewtype(x) : x \in ValuesOf(ty.of)}
      [] ty.t = "seq" -> {VSeq(xs) : xs \in SeqsUpTo(MemberValues(ty.of), MaxLen)}
      [] ty.t = "tuple" -> {VTuple(xs) : xs \in Products(ty.elems)}
      [] ty.t = "map" ->
            {VMap(en) : en \in {x \in SeqsUpTo(MemberValues(ty.key) \X MemberValues(ty.val), MaxLen) :
                                    DistinctKeys(x)}}
      [] ty.t = "struct" ->
            {VStruct([i \in 1..Len(ty.fields) |-> <<ty.fields[i].name, xs[i]>>]) :
                xs \in Products([i \in 1..Len(ty.fields) |-> ty.fields[i].ty])}
      [] ty.t = "enum" ->
            UNION {VariantValues(ty.variants[i]) : i \in 1..Len(ty.variants)}

\* the types of the examples and tests, cut down
Point == TStruct(<<Field(<<"x">>, TInt("i32"), "required"),
                   Field(<<"y">>, TBool, "required")>>)

ComplexEnum ==
    TEnum(<<UnitV(<<"A">>),
            NewtypeV(<<"B">>, TInt("u8")),
            TupleV(<<"C">>, <<TBool, TString>>),
            StructV(<<"D">>, <<Field(<<"x">>, TBool, "required")>>)>>)

NestedStruct ==
    TStruct(<<Field(<<"e">>, ComplexEnum, "required"),
              Field(<<"o">>, TOption(TInt("u8")), "required")>>)

\* types whose values the round trip is about
RoundTripTypes ==
    {TBool, TString, TChar, Point, ComplexEnum, NestedStruct,
     TOption(TBool), TOption(TOption(TBool)), TOption(TString),
     TNewtype(TInt("i16")),
     TSeq(TInt("u8")), TSeq(TOption(TBool)), TSeq(ComplexEnum),
     TTuple(<<TBool, TString>>), TTuple(<<TInt("u16"), TOption(TBool), TChar>>),
     TMap(TString, TInt("i32")), TMap(TInt("u8"), TBool),
     TEnum(<<NewtypeV(<<"B">>, TOption(TBool)), NewtypeV(<<"S">>, TSeq(TBool))>>)}
    \cup {TInt(T) : T \in IntTypes}

\* further types, given to the encoder only
EncodeTypes ==
    {TUnit, TBytes, TMap(TUnit, TBool), TMap(TOption(TBool), TInt("i64")), TMap(TF64, TBool),
     TMap(TNewtype(TUnit), TBool), TSeq(TInt("i64")),
     TEnum(<<NewtypeV(<<"B">>, TInt("u64")), NewtypeV(<<"U">>, TUnit)>>)}

\* types with a member that may fail to encode two and three levels down
DeepEncodeTypes ==
    {TStruct(<<Field(<<"p">>, TNewtype(TInt("u64")), "required"),
               Field(<<"q">>, TBool, "required")>>),
     TEnum(<<StructV(<<"D">>, <<Field(<<"x">>, TSeq(TInt("i64")), "required")>>),
             TupleV(<<"C">>, <<TBool, TInt("u64")>>)>>),
     TOption(TSeq(TBytes))}

ToLuaCalls ==
    UNION {{[op |-> "to_lua", ty |-> ty, v |-> v] : v \in ValuesOf(ty)} :
              ty \in RoundTripTypes \cup EncodeTypes \cup DeepEncodeTypes}

\* values that are no Number / no String
NonNumbers == {LuaNil, LuaBoolean(TRUE), Str("a"), LuaArray(<<>>), LuaOther,
               LuaAnyString(<<255>>)}
NonStrings == {LuaNil, LuaBoolean(FALSE), Num(1), LuaArray(<<>>), LuaOther,
               LuaAnyString(<<255>>)}

IntDecodeCalls ==
    {[op |-> "from_lua", ty |-> TInt(T), value |-> x] :
        T \in IntTypes, x \in {LuaNumber(n) : n \in NumberSamples} \cup NonNumbers}

CharDecodeCalls ==
    {[op |-> "from_lua", ty |-> TChar, value |-> x] :
        x \in {LuaString(cs) : cs \in SeqsUpTo(CharSamples, MaxStrLen)} \cup NonStrings}

\* de.rs tests: FailUnitStruct, SuccessUnitStruct, and the serde(default)
\* form the crate docs describe
ValueName == <<"v", "a", "l", "u", "e">>
FailUnitStruct == TStruct(<<Field(ValueName, TUnit, "required")>>)
SuccessUnitStruct == TStruct(<<Field(ValueName, TUnit, "skip")>>)
DefaultUnitStruct == TStruct(<<Field(ValueName, TUnit, "default")>>)
UnitStructs == {FailUnitStruct, SuccessUnitStruct, DefaultUnitStruct}

StructPairs ==
    {<<LuaString(ValueName), LuaNil>>, <<LuaString(ValueName), Str("a")>>,
     <<Str("z"), Str("a")>>, <<Str("z"), LuaOther>>, <<Num(1), Str("a")>>}

StructDecodeCalls ==
    {[op |-> "from_lua", ty |-> ty, value |-> LuaArray(p)] :
        ty \in UnitStructs, p \in SeqsUpTo(StructPairs, MaxPairs)}

EnumPairs ==
    {<<Str("A"), LuaNil>>, <<Str("A"), Num(1)>>, <<Str("B"), Num(1)>>,
     <<Str("Z"), LuaNil>>, <<Num(1), Num(1)>>, <<LuaOther, LuaNil>>}

EnumDecodeCalls ==
    {[op |-> "from_lua", ty |-> ComplexEnum, value |-> x] :
        x \in {LuaArray(p) : p \in SeqsUpTo(EnumPairs, MaxPairs)}
              \cup {Str("A"), Str("B"), Str("Z"), LuaNil, Num(1), LuaOther}}

\* Tables for the array / map test.  The value of a pair tells the position
\* the pair has in the Table.
KeySamples == {Num(1), Num(2), Num(3), Num(4), LuaNumber(Half(3)), Str("x")}
LowKeys == {Num(0), Num(-1), Num(1)}
PosValues == <<Str("a"), Str("b"), Str("c"), Str("d"), Str("e"), Str("f")>>
WithValues(ks) == [i \in 1..Len(ks) |-> <<ks[i], PosValues[i]>>]
\* the Table that holds xs as an array, and the Table of an enum value
Array(xs) == LuaArray([i \in 1..Len(xs) |-> <<Num(i), xs[i]>>])
Tagged(tag, payload) == LuaArray(<< <<Str(tag), payload>> >>)
TableSamples ==
    {LuaArray(WithValues(ks)) : ks \in SeqsUpTo(KeySamples, MaxPairs) \cup SeqsUpTo(LowKeys, 2)}

TableCalls ==
    {[op |-> o, value |-> x] : o \in {"deserialize_any", "deserialize_seq"},
                               x \in TableSamples \cup NonStrings \cup {Str("a")}}
    \cup {[op |-> "from_lua", ty |-> ty, value |-> x] :
            ty \in {TAny, TSeq(TString)}, x \in TableSamples}

\* the builders are driven call by call, with these keys and values
BuilderCalls == {[op |-> "serialize_map"], [op |-> "serialize_seq"]}
BuilderKeys == {VStr(<<"a">>), VInt("u8", FromNat(1)),
                VUnit, VNone, VUnitStruct, VF64(NaN), VInt("i64", Negate(Ones(63)))}
BuilderValues == {VBool(TRUE), VUnit, VInt("i64", Negate(Ones(63)))}

\* one or more values of every kind of AnyLuaValue
KindSamples ==
    {LuaNil, LuaBoolean(TRUE), LuaBoolean(FALSE),
     Num(1), LuaNumber(Half(3)), LuaNumber(NaN), LuaNumber(TwoBits(24, 0)),
     LuaNumber(Pow2(128)),
     LuaString(<<>>), Str("a"), LuaAnyString(<<255>>),
     LuaArray(<<>>), LuaArray(<< <<Num(1), Str("a")>> >>),
     LuaArray(<< <<Str("x"), Num(1)>> >>), LuaOther}

\* the methods of LuaDeserializer that take a length: the arity of the tuple
TupleMethods == {"deserialize_tuple", "deserialize_tuple_struct"}

\* the methods of LuaDeserializer that are called with a visitor only
Methods ==
    {"deserialize_bool", "deserialize_f32", "deserialize_f64", "deserialize_char",
     "deserialize_str", "deserialize_string", "deserialize_bytes", "deserialize_byte_buf",
     "deserialize_option", "deserialize_unit", "deserialize_unit_struct",
     "deserialize_newtype_struct", "deserialize_map", "deserialize_struct",
     "deserialize_enum", "deserialize_identifier", "deserialize_ignored_any"}
    \cup {"deserialize_" \o T : T \in IntTypes}

\* self.<method>(visitor) or self.<method>(len, visitor), up to the call of
\* the visitor
Method(name, value, len, bld) ==
    CASE name = "deserialize_bool" -> deserialize_bool(value)
      [] name = "deserialize_i8" -> deserialize_i8(value, bld)
      [] name = "deserialize_i16" -> deserialize_i16(value, bld)
      [] name = "deserialize_i32" -> deserialize_i32(value, bld)
      [] name = "deserialize_i64" -> deserialize_i64(value, bld)
      [] name = "deserialize_u8" -> deserialize_u8(value, bld)
      [] name = "deserialize_u16" -> deserialize_u16(value, bld)
      [] name = "deserialize_u32" -> deserialize_u32(value, bld)
      [] name = "deserialize_u64" -> deserialize_u64(value, bld)
      [] name = "deserialize_f32" -> deserialize_f32(value)
      [] name = "deserialize_f64" -> deserialize_f64(value)
      [] name = "deserialize_char" -> deserialize_char(value)
      [] name = "deserialize_str" -> deserialize_str(value)
      [] name = "deserialize_string" -> deserialize_string(value)
      [] name = "deserialize_bytes" -> deserialize_bytes(value)
      [] name = "deserialize_byte_buf" -> deserialize_byte_buf(value)
      [] name = "deserialize_option" -> deserialize_option(value)
      [] name = "deserialize_unit" -> deserialize_unit(value)
      [] name = "deserialize_unit_struct" -> deserialize_unit_struct(value)
      [] name = "deserialize_newtype_struct" -> deserialize_newtype_struct(value)
      [] name = "deserialize_tuple" -> deserialize_tuple(value, len, bld)
      [] name = "deserialize_tuple_struct" -> deserialize_tuple_struct(value, len, bld)
      [] name = "deserialize_map" -> deserialize_map(value)
      [] name = "deserialize_struct" -> deserialize_struct(value)
      [] name = "deserialize_enum" -> deserialize_enum(value)
      [] name = "deserialize_identifier" -> deserialize_identifier(value)
      [] name = "deserialize_ignored_any" -> deserialize_ignored_any(value, bld)

\* Tables for the arity test of the tuples
TupleTables ==
    {LuaArray(WithValues(ks)) :
        ks \in SeqsUpTo({Num(1), Num(2), Num(3), Str("x")}, MaxPairs)}

\* a pair of strings as a tuple and as the payload of a tuple variant
PairTuple == TTuple(<<TString, TString>>)
PairEnum == TEnum(<<TupleV(<<"T">>, <<TString, TString>>)>>)

TupleDecodeCalls ==
    {[op |-> "from_lua", ty |-> PairTuple, value |-> x] : x \in TupleTables}
    \cup {[op |-> "from_lua", ty |-> PairEnum, value |-> Tagged("T", x)] :
            x \in TupleTables}

\* Tables of every shape for the map decode
MapTables ==
    {LuaArray(WithValues(ks)) : ks \in SeqsUpTo({Num(1), Num(2), Str("x")}, MaxPairs)}
MapMethods == {"deserialize_map", "deserialize_struct"}
AnyMap == TMap(TAny, TString)

MapDecodeCalls ==
    {[op |-> "from_lua", ty |-> AnyMap, value |-> x] : x \in MapTables \cup KindSamples}

\* Tables whose map accessor is driven call by call
WalkTables == {LuaArray(WithValues(ks)) : ks \in SeqsUpTo({Num(1), Str("x")}, MaxPairs)}
WalkCalls == {[op |-> "visit_map", value |-> x] : x \in WalkTables}

MethodCalls ==
    {[op |-> "deserialize", method |-> m, len |-> 0, value |-> x] :
        m \in Methods, x \in KindSamples}
    \cup {[op |-> "deserialize", method |-> m, len |-> 0, value |-> x] :
            m \in MapMethods, x \in MapTables}
    \cup {[op |-> "deserialize", method |-> m, len |-> n, value |-> x] :
            m \in TupleMethods, n \in 0..MaxPairs, x \in TupleTables \cup KindSamples}

ScalarDecodeCalls ==
    {[op |-> "from_lua", ty |-> ty, value |-> x] :
        ty \in {TBool, TString, TF64, TBytes, TByteBuf}, x \in KindSamples}

\* consumers of every kind, each given the opaque value
OpaqueTypes ==
    RoundTripTypes
    \cup {TUnit, TF64, TAny, TIgnored, TOption(TUnit), TOption(TIgnored),
          TNewtype(TUnit), TNewtype(TOption(TAny)), TSeq(TAny), TMap(TAny, TAny),
          TTuple(<<>>), TStruct(<<>>),
          TFieldIdent(<<ValueName>>), TVariantIdent(<<ValueName>>)}

OpaqueCalls ==
    {[op |-> "from_lua", ty |-> ty, value |-> LuaOther] : ty \in OpaqueTypes}

\* Tables whose members may fail to decode, one to three levels down
MemberSamples == {Num(1), LuaNumber(Half(3)), Str("a")}

NestedDecodeCalls ==
    {[op |-> "from_lua", ty |-> TSeq(TInt("u8")), value |-> Array(xs)] :
        xs \in SeqsUpTo(MemberSamples, MaxPairs)}
    \cup {[op |-> "from_lua", ty |-> TMap(TString, TInt("u8")), value |-> LuaArray(p)] :
            p \in SeqsUpTo({Str("a"), Num(1)} \X MemberSamples, 2)}
    \cup {[op |-> "from_lua", ty |-> Point, value |-> LuaArray(p)] :
            p \in SeqsUpTo({<<Str("x"), Num(1)>>, <<Str("x"), Str("a")>>,
                            <<Str("y"), LuaBoolean(TRUE)>>, <<Str("y"), Num(1)>>}, 2)}
    \cup {[op |-> "from_lua", ty |-> ty, value |-> x] :
            ty \in {ComplexEnum, TOption(ComplexEnum), TSeq(ComplexEnum)},
            x \in {Tagged("B", y) : y \in MemberSamples}
                  \cup {Tagged("C", Array(<<LuaBoolean(TRUE), y>>)) : y \in MemberSamples}
                  \cup {Tagged("D", Tagged("x", y)) : y \in {LuaBoolean(TRUE), Num(1)}}
                  \cup {Array(<<Tagged("B", y), Tagged("B", z)>>) :
                            y, z \in MemberSamples}
                  \cup {Array(<<Tagged("D", Tagged("x", y))>>) :
                            y \in {LuaBoolean(TRUE), Num(1)}}}
    \cup {[op |-> "from_lua", ty |-> NestedStruct,
           value |-> LuaArray(<< <<Str("e"), Tagged("B", y)>>, <<Str("o"), z>> >>)] :
            y, z \in MemberSamples}

\* a bare tag given to enums whose variants carry payloads of several types
TagEnums ==
    {ComplexEnum,
     TEnum(<<NewtypeV(<<"B">>, TOption(TBool)), NewtypeV(<<"S">>, TSeq(TBool))>>),
     TEnum(<<NewtypeV(<<"B">>, TInt("u64")), NewtypeV(<<"U">>, TUnit)>>),
     TEnum(<<NewtypeV(<<"B">>, TString), TupleV(<<"C">>, <<>>),
             StructV(<<"D">>, <<>>)>>)}

TagCalls ==
    {[op |-> "from_lua", ty |-> ty, value |-> Str(tag)] :
        ty \in TagEnums, tag \in {"A", "B", "C", "D", "S", "U"}}

Calls == ToLuaCalls \cup IntDecodeCalls \cup CharDecodeCalls \cup StructDecodeCalls
         \cup EnumDecodeCalls \cup TableCalls \cup BuilderCalls
         \cup MethodCalls \cup ScalarDecodeCalls \cup OpaqueCalls
         \cup NestedDecodeCalls \cup TupleDecodeCalls \cup MapDecodeCalls
         \cup WalkCalls \cup TagCalls

(***************************************************************************)
(* Conversion calls.  Init draws the call, the actions run it.             *)
(***************************************************************************)
NoRet == [ok |-> FALSE, pending |-> TRUE]
NoLog == [call |-> "none", before |-> <<>>, events |-> <<>>, prior |-> [call |-> "none"]]
\* the call made on the builder before the one the log is about
Prior == [call |-> accLog.call, before |-> accLog.before, arg |-> arg]
NoAccess == [kind |-> "none"]

\* what visit_seq / visit_map hands to the visitor
Handed(r) ==
    IF r.ok /\ r.visit \in {"seq", "map"} THEN [kind |-> r.visit, a |-> r.access]
    ELSE NoAccess

Init ==
    /\ build \in Builds
    /\ \E c \in Calls :
        /\ op = c.op
        /\ arg = c
        /\ lua = IF "value" \in DOMAIN c THEN c.value ELSE LuaNil
    /\ pc = "call"
    /\ ret = NoRet
    /\ acc = <<>>
    /\ accSt = "none"
    /\ accLog = NoLog
    /\ handed = NoAccess
    /\ yielded = <<>>

\* lib.rs to_lua
ToLua ==
    /\ pc = "call"
    /\ op = "to_lua"
    /\ ret' = to_lua(arg.v, build)
    /\ lua' = IF ret'.ok THEN ret'.v ELSE lua
    /\ pc' = "encoded"
    /\ UNCHANGED <<build, op, arg, acc, accSt, accLog, handed, yielded>>

\* lib.rs from_lua, of a given value or of the value to_lua has produced
FromLua ==
    /\ \/ pc = "call" /\ op = "from_lua"
       \/ pc = "encoded" /\ op = "to_lua" /\ ret.ok
    /\ ret' = from_lua(arg.ty, lua, build)
    /\ pc' = "done"
    /\ UNCHANGED <<build, op, arg, lua, acc, accSt, accLog, handed, yielded>>

\* LuaDeserializer::deserialize_any, up to the visitor call
DeserializeAny ==
    /\ pc = "call"
    /\ op = "deserialize_any"
    /\ ret' = deserialize_any(lua, build)
    /\ handed' = Handed(ret')
    /\ pc' = "done"
    /\ UNCHANGED <<build, op, arg, lua, acc, accSt, accLog, yielded>>

\* LuaDeserializer::deserialize_seq, up to the visitor call
DeserializeSeq ==
    /\ pc = "call"
    /\ op = "deserialize_seq"
    /\ ret' = deserialize_seq(lua, build)
    /\ handed' = Handed(ret')
    /\ pc' = "done"
    /\ UNCHANGED <<build, op, arg, lua, acc, accSt, accLog, yielded>>

\* a method of LuaDeserializer, up to the visitor call
DeserializeCall ==
    /\ pc = "call"
    /\ op = "deserialize"
    /\ ret' = Method(arg.method, lua, arg.len, build)
    /\ handed' = Handed(ret')
    /\ pc' = "done"
    /\ UNCHANGED <<build, op, arg, lua, acc, accSt, accLog, yielded>>

\* the log takes the result of the call and the size hint after it
ElementLogged(seed, st) ==
    /\ yielded' = Append(yielded, [call |-> "element", seed |-> seed, r |-> st.r,
                                   hint |-> Seq_size_hint(st.access)])
    /\ handed' = [handed EXCEPT !.a = st.access]
    /\ UNCHANGED <<build, pc, op, arg, lua, ret, acc, accSt, accLog>>

\* the visitor that was handed a LuaSeqAccess calls next_element_seed and
\* then size_hint; the sequence is walked to its end and one call beyond
SeqNextElement ==
    /\ pc = "done"
    /\ handed.kind = "seq"
    /\ Len(yielded) <= Len(lua.p)
    /\ \E seed \in {TAny, TString} :
            ElementLogged(seed, next_element_seed(handed.a, seed, build))

\* LuaDeserializer::deserialize_map with a visitor that drives the accessor
\* itself
DeserializeMapWalk ==
    /\ pc = "call"
    /\ op = "visit_map"
    /\ ret' = deserialize_map(lua)
    /\ handed' = Handed(ret')
    /\ pc' = "done"
    /\ UNCHANGED <<build, op, arg, lua, acc, accSt, accLog, yielded>>

\* the visitor may call the accessor until it has made one call more than
\* a walk by key and value takes, or until a call has panicked
Walking ==
    /\ pc = "done"
    /\ op = "visit_map"
    /\ handed.kind = "map"
    /\ Len(yielded) <= 2 * Len(lua.p)

Logged(call, st) ==
    /\ yielded' = Append(yielded, [call |-> call, r |-> st.r])
    /\ handed' = [handed EXCEPT !.a = st.access]
    /\ pc' = IF "panic" \in DOMAIN st.r THEN "panicked" ELSE pc
    /\ UNCHANGED <<build, op, arg, lua, ret, acc, accSt, accLog>>

MapNextKey == Walking /\ Logged("key", next_key_seed(handed.a, TAny, build))

MapNextValue == Walking /\ Logged("value", next_value_seed(handed.a, TAny, build))

MapNextEntry == Walking /\ Logged("entry", next_entry_seed(handed.a, TAny, TAny, build))

(***************************************************************************)
(* The builders, call by call.  Their callers (serde's Serialize impls,    *)
(* which use `?`, and the tests) give the builder up at the first error.   *)
(***************************************************************************)
Called(name, st) ==
    /\ acc' = st.acc
    /\ ret' = st.r
    /\ accLog' = [call |-> name, before |-> acc, events |-> st.events, prior |-> Prior]
    /\ accSt' = IF st.r.ok THEN "open" ELSE "failed"
    /\ UNCHANGED <<build, pc, op, lua, handed, yielded>>

\* LuaSerializer::serialize_map
SerializeMap ==
    /\ pc = "call"
    /\ op = "serialize_map"
    /\ acc' = serialize_map
    /\ accSt' = "open"
    /\ pc' = "building"
    /\ ret' = Ok(LuaNil)
    /\ UNCHANGED <<build, op, arg, lua, accLog, handed, yielded>>

\* LuaSerializer::serialize_seq
SerializeSeq ==
    /\ pc = "call"
    /\ op = "serialize_seq"
    /\ acc' = serialize_seq
    /\ accSt' = "open"
    /\ pc' = "building"
    /\ ret' = Ok(LuaNil)
    /\ UNCHANGED <<build, op, arg, lua, accLog, handed, yielded>>

MapSerializeKey ==
    /\ op = "serialize_map" /\ accSt = "open" /\ Len(acc) < MaxLen
    /\ \E key \in BuilderKeys :
        /\ arg' = [op |-> "serialize_key", key |-> key]
        /\ Called("serialize_key", Map_serialize_key(acc, Serialize(key, build)))

MapSerializeValue ==
    /\ op = "serialize_map" /\ accSt = "open"
    /\ \E value \in BuilderValues :
        /\ arg' = [op |-> "serialize_value", value |-> value]
        /\ Called("serialize_value", Map_serialize_value(acc, Serialize(value, build)))

MapSerializeEntry ==
    /\ op = "serialize_map" /\ accSt = "open" /\ Len(acc) < MaxLen
    /\ \E key \in BuilderKeys, value \in BuilderValues :
        /\ arg' = [op |-> "serialize_entry", key |-> key, value |-> value]
        /\ Called("serialize_entry",
                  Map_serialize_entry(acc, Serialize(key, build), Serialize(value, build)))

MapEnd ==
    /\ op = "serialize_map" /\ accSt = "open"
    /\ ret' = Map_end(acc)
    /\ lua' = ret'.v
    /\ accSt' = "ended"
    /\ pc' = "done"
    /\ accLog' = [call |-> "end", before |-> acc, events |-> <<>>, prior |-> Prior]
    /\ UNCHANGED <<build, op, arg, acc, handed, yielded>>

SeqSerializeElement ==
    /\ op = "serialize_seq" /\ accSt = "open" /\ Len(acc) < MaxLen
    /\ \E value \in BuilderValues :
        /\ arg' = [op |-> "serialize_element", value |-> value]
        /\ Called("serialize_element", Seq_serialize_element(acc, Serialize(value, build)))

SeqEnd ==
    /\ op = "serialize_seq" /\ accSt = "open"
    /\ ret' = Seq_end(acc)
    /\ lua' = ret'.v
    /\ accSt' = "ended"
    /\ pc' = "done"
    /\ accLog' = [call |-> "end", before |-> acc, events |-> <<>>, prior |-> Prior]
    /\ UNCHANGED <<build, op, arg, acc, handed, yielded>>

Next ==
    \/ ToLua \/ FromLua \/ DeserializeAny \/ DeserializeSeq \/ DeserializeCall
    \/ SeqNextElement
    \/ DeserializeMapWalk \/ MapNextKey \/ MapNextValue \/ MapNextEntry
    \/ SerializeMap \/ MapSerializeKey \/ MapSerializeValue \/ MapSerializeEntry \/ MapEnd
    \/ SerializeSeq \/ SeqSerializeElement \/ SeqEnd

Spec == Init /\ [][Next]_vars

(***************************************************************************)
(* Two conversions in flight.  Two calls (encodes of a sequence or a map,  *)
(* decodes of a sequence) are started and their builder and accessor steps *)
(* are taken in any order.  arg, pc, acc, handed, yielded and ret hold one *)
(* component per call.  A call follows the Serialize / Deserialize impl of *)
(* its type: the members in order, giving up at the first error.           *)
(***************************************************************************)
TwoValues ==
    {VSeq(xs) : xs \in SeqsUpTo({VBool(TRUE), VInt("i64", Negate(Ones(63)))}, MaxLen)}
    \cup {VMap(en) : en \in SeqsUpTo({<<VStr(<<"a">>), VBool(TRUE)>>,
                                      <<VUnit, VBool(FALSE)>>}, MaxLen)}

TwoTables == {Array(xs) : xs \in SeqsUpTo({Num(1), Str("a")}, MaxLen)}

TwoCalls ==
    {[op |-> "to_lua", v |-> v] : v \in TwoValues}
    \cup {[op |-> "from_lua", ty |-> TSeq(TInt("u8")), value |-> x] : x \in TwoTables}

\* variant: every builder works on the pairs of the first call
M_Own(held, i) == held[1]

\* self.0 of a builder: the pairs the call itself holds
Own(held, i) == held[i]

Members(c) == IF c.v.t = "seq" THEN c.v.items ELSE c.v.entries

InitInterleaved ==
    /\ build \in Builds
    /\ op = "pair"
    /\ arg \in TwoCalls \X TwoCalls
    /\ pc = <<"call", "call">>
    /\ ret = <<NoRet, NoRet>>
    /\ acc = <<(<<>>), (<<>>)>>
    /\ handed = <<NoAccess, NoAccess>>
    /\ yielded = <<(<<>>), (<<>>)>>
    /\ lua = LuaNil
    /\ accSt = "none"
    /\ accLog = NoLog

\* LuaSerializer::serialize_seq / serialize_map
StartEncode ==
    \E i \in 1..2 :
        /\ pc[i] = "call" /\ arg[i].op = "to_lua"
        /\ acc' = [acc EXCEPT ![i] = IF arg[i].v.t = "seq" THEN serialize_seq
                                     ELSE serialize_map]
        /\ pc' = [pc EXCEPT ![i] = "building"]
        /\ UNCHANGED <<build, op, arg, lua, ret, accSt, accLog, handed, yielded>>

\* the call i has made a step on its builder
Stepped(i, st) ==
    /\ acc' = [acc EXCEPT ![i] = st.acc]
    /\ ret' = [ret EXCEPT ![i] = IF st.r.ok THEN @ ELSE st.r]
    /\ pc' = [pc EXCEPT ![i] = IF st.r.ok THEN @ ELSE "done"]
    /\ UNCHANGED <<build, op, arg, lua, accSt, accLog, handed, yielded>>

\* serialize_element / serialize_entry with the next member of the value
StepSerialize ==
    \E i \in 1..2 :
        /\ pc[i] = "building"
        /\ Len(Own(acc, i)) < Len(Members(arg[i]))
        /\ Stepped(i, IF arg[i].v.t = "seq"
                      THEN Seq_serialize_element(
                              Own(acc, i),
                              Serialize(Members(arg[i])[Len(Own(acc, i)) + 1], build))
                      ELSE Map_serialize_entry(
                              Own(acc, i),
                              Serialize(Members(arg[i])[Len(Own(acc, i)) + 1][1], build),
                              Serialize(Members(arg[i])[Len(Own(acc, i)) + 1][2], build)))

\* end, once every member is given
StepEnd ==
    \E i \in 1..2 :
        /\ pc[i] = "building"
        /\ Len(Own(acc, i)) = Len(Members(arg[i]))
        /\ ret' = [ret EXCEPT ![i] = IF arg[i].v.t = "seq" THEN Seq_end(Own(acc, i))
                                     ELSE Map_end(Own(acc, i))]
        /\ pc' = [pc EXCEPT ![i] = "done"]
        /\ UNCHANGED <<build, op, arg, lua, acc, accSt, accLog, handed, yielded>>

\* the call i has asked for a sequence and got r
Started(i, r) ==
    /\ handed' = [handed EXCEPT ![i] = IF r.ok THEN r.access ELSE @]
    /\ ret' = [ret EXCEPT ![i] = IF r.ok THEN @ ELSE r]
    /\ pc' = [pc EXCEPT ![i] = IF r.ok THEN "visiting" ELSE "done"]
    /\ UNCHANGED <<build, op, arg, lua, acc, accSt, accLog, yielded>>

\* deserialize_seq, which hands the visitor a LuaSeqAccess
StartDecode ==
    \E i \in 1..2 :
        /\ pc[i] = "call" /\ arg[i].op = "from_lua"
        /\ Started(i, deserialize_seq(arg[i].value, build))

\* the visitor of call i has made a step on its accessor
Visited(i, st) ==
    /\ handed' = [handed EXCEPT ![i] = st.access]
    /\ yielded' = [yielded EXCEPT ![i] = IF st.r.ok /\ st.r.v.some
                                         THEN Append(@, st.r.v.x) ELSE @]
    /\ ret' = [ret EXCEPT ![i] = IF ~st.r.ok THEN st.r
                                 ELSE IF st.r.v.some THEN @
                                 ELSE Ok(VSeq(yielded[i]))]
    /\ pc' = [pc EXCEPT ![i] = IF st.r.ok /\ st.r.v.some THEN @ ELSE "done"]
    /\ UNCHANGED <<build, op, arg, lua, acc, accSt, accLog>>

\* next_element_seed, until it gives None or an error
StepNextElement ==
    \E i \in 1..2 :
        /\ pc[i] = "visiting"
        /\ Visited(i, next_element_seed(handed[i], arg[i].ty.of, build))

NextInterleaved ==
    \/ StartEncode \/ StepSerialize \/ StepEnd
    \/ StartDecode \/ StepNextElement

SpecInterleaved == InitInterleaved /\ [][NextInterleaved]_vars

(***************************************************************************)
(* Properties.                                                             *)
(***************************************************************************)
\* n is exactly an f64
Exact(n) == Len(n.bits) <= F64Bits

\* v encodes to Nil
RECURSIVE EncodesNil(_)
EncodesNil(v) ==
    \/ v.t \in {"none", "unit", "unit_struct"}
    \/ v.t \in {"some", "newtype"} /\ EncodesNil(v.x)

\* the values directly inside v
ChildSet(v) ==
    CASE v.t \in {"some", "newtype"} -> {v.x}
      [] v.t \in {"seq", "tuple"} -> {v.items[i] : i \in 1..Len(v.items)}
      [] v.t = "map" -> {v.entries[i][1] : i \in 1..Len(v.entries)}
                        \cup {v.entries[i][2] : i \in 1..Len(v.entries)}
      [] v.t = "struct" -> {v.fields[i][2] : i \in 1..Len(v.fields)}
      [] v.t = "variant" /\ v.kind = "newtype" -> {v.x}
      [] v.t = "variant" /\ v.kind = "tuple" -> {v.items[i] : i \in 1..Len(v.items)}
      [] v.t = "variant" /\ v.kind = "struct" -> {v.fields[i][2] : i \in 1..Len(v.fields)}
      [] OTHER -> {}

\* v holds no Some around a value that encodes to Nil, and no integer that
\* is not exactly an f64
RECURSIVE Faithful(_)
Faithful(v) ==
    /\ v.t = "some" => ~EncodesNil(v.x)
    /\ v.t = "int" => Exact(v.n)
    /\ \A c \in ChildSet(v) : Faithful(c)

Perm3(p) == Len(p) = 3 /\ {p[i][1] : i \in 1..3} = {Num(1), Num(2), Num(3)}
ByKey(p) == [i \in 1..3 |-> CHOOSE pr \in {p[j] : j \in 1..3} : pr[1] = Num(i)]

\* C2: a Table whose keys are 1, 2, 3, in any order of its pairs, decodes as
\* the 3-element sequence of its values in ascending key order, through
\* sequence decode and through the self-describing decode.
C2_AnyPairOrder ==
    (pc = "done" /\ lua.k = "tbl" /\ Perm3(lua.p)) =>
        /\ op \in {"deserialize_seq", "deserialize_any"} =>
                ret = VisitSeq(LuaSeqAccess(ByKey(lua.p)))
        /\ (op = "from_lua" /\ arg.ty \in {TSeq(TString), TAny}) =>
                ret = Ok(VSeq([i \in 1..3 |-> VStr(ByKey(lua.p)[i][2].s)]))

KeysAre1toN(p) == {p[i][1] : i \in 1..Len(p)} = {Num(i) : i \in 1..Len(p)}
MapShaped(p) ==
    \/ \E i \in 1..Len(p) : p[i][1].k # "num"
    \/ ~KeysAre1toN(p)
AnyOf(x) == IF x.k = "num" THEN VF64(x.n) ELSE VStr(x.s)

\* C3: under the self-describing decode a Table with a non-numeric key, or
\* whose numeric keys are not exactly 1..N, is visited as a map that yields
\* every pair of the Table, in the Table's order.
C3_MapKeepsPairs ==
    (pc = "done" /\ lua.k = "tbl" /\ MapShaped(lua.p)) =>
        /\ op = "deserialize_any" => ret = VisitMap(LuaMapAccess(lua.p, OptNone))
        /\ (op = "from_lua" /\ arg.ty = TAny) =>
                ret = Ok(VMap([i \in 1..Len(lua.p) |->
                                <<AnyOf(lua.p[i][1]), AnyOf(lua.p[i][2])>>]))

C3_Witness ==
    /\ pc = "done" /\ op = "from_lua" /\ arg.ty = TAny
    /\ lua = LuaArray(WithValues(<<Num(4), Num(1), Num(2)>>))
    /\ ret.ok /\ ret.v.t = "map" /\ Len(ret.v.entries) = 3

\* C4: encoding an i64 or u64 v succeeds, with Number(v), exactly when v is
\* exactly representable as an f64, and fails otherwise (i64::MIN encodes;
\* i64::MIN + 1, i64::MAX and u64::MAX fail).
C4_EncodeExact ==
    (pc = "encoded" /\ op = "to_lua" /\ arg.ty \in {TInt("i64"), TInt("u64")}) =>
        IF Exact(arg.v.n) THEN ret = Ok(LuaNumber(arg.v.n)) ELSE ~ret.ok

\* C5: decoding a Number n into a fixed-width integer type T succeeds exactly
\* when casting n to T and back to f64 gives n, and fails with the type error
\* otherwise; so fractions, NaN, the infinities, negative values for an
\* unsigned T and out-of-range values all fail, Number(1.0) decodes to the
\* u8 value 1, and an input that is no Number fails.
C5_DecodeExact ==
    (pc = "done" /\ op = "from_lua" /\ arg.ty.t = "int") =>
        LET T == arg.ty.ty IN
        /\ ret.ok <=> (lua.k = "num"
                        /\ F64Eq(IntAsF64(F64AsInt(T, lua.n, build)), lua.n))
        /\ ~ret.ok => ret = Err(error(lua))
        /\ (lua.k # "num" \/ ~InRange(T, lua.n)) => ~ret.ok
        /\ (T = "u8" /\ lua = Num(1)) => ret = Ok(VInt("u8", FromNat(1)))

BadKey(key) == EncodesNil(key) \/ key = VF64(NaN)
KeyError(key) == IF key = VF64(NaN) THEN Err(KeyNaN) ELSE Err(KeyNil)

\* C6: serialize_key and serialize_entry reject a key that encodes to Nil or
\* to NaN with the unserializable-key error, without encoding the value and
\* without adding a pair; encoding a map with such a key returns an error.
C6_KeyRejected ==
    /\ (op = "serialize_map" /\ accLog.call \in {"serialize_key", "serialize_entry"}
            /\ BadKey(arg.key)) =>
            /\ ret = KeyError(arg.key)
            /\ acc = accLog.before
            /\ \A i \in 1..Len(accLog.events) : accLog.events[i] # "value.serialize"
            /\ accSt = "failed"
    /\ (op = "to_lua" /\ pc = "encoded" /\ arg.v.t = "map") =>
            LET en == arg.v.entries
                bad == {i \in 1..Len(en) : BadKey(en[i][1])}
                first == CHOOSE i \in bad : \A j \in bad : i <= j
            IN  bad # {} =>
                    /\ ~ret.ok
                    /\ (\A j \in 1..(first - 1) : to_lua(en[j][2], build).ok) =>
                            ret = KeyError(en[first][1])

C6_Witness ==
    /\ op = "serialize_map" /\ accLog.call = "serialize_entry"
    /\ arg.key = VF64(NaN) /\ arg.value = VInt("i64", Negate(Ones(63)))
    /\ Len(acc) = 1
    /\ ret = Err(KeyNaN)

\* C7: enum decode of a Table picks a variant only if the Table has exactly
\* one entry; with no entry or with several it fails with invalid length,
\* reporting the number of entries, whatever the keys and payloads are.
C7_EnvelopeLength ==
    (pc = "done" /\ op = "from_lua" /\ arg.ty = ComplexEnum /\ lua.k = "tbl") =>
        /\ Len(lua.p) # 1 => ret = Err(InvalidLength(Len(lua.p)))
        /\ ret.ok => Len(lua.p) = 1

C7_Witness ==
    /\ pc = "done" /\ op = "from_lua" /\ arg.ty = ComplexEnum /\ lua.k = "tbl"
    /\ Len(lua.p) = 2 /\ lua.p[1][1] = LuaOther
    /\ ret = Err(InvalidLength(2))

Envelope(tag, payload) == LuaArray(<< <<LuaString(tag), payload>> >>)

\* C8: a unit variant encodes to String(tag); a newtype, tuple or struct
\* variant encodes to a one-entry Table keyed by String(tag) whose value is
\* the encoded inner value, the Table of the encoded fields under keys 1..N,
\* or the Table of the encoded fields under their names.
C8_EnumShapes ==
    (pc = "encoded" /\ op = "to_lua" /\ arg.v.t = "variant") =>
        LET v == arg.v
            enc(x) == to_lua(x, build)
        IN  CASE v.kind = "unit" -> ret = Ok(LuaString(v.tag))
              [] v.kind = "newtype" ->
                    IF enc(v.x).ok THEN ret = Ok(Envelope(v.tag, enc(v.x).v))
                    ELSE ~ret.ok
              [] v.kind = "tuple" ->
                    IF \A i \in 1..Len(v.items) : enc(v.items[i]).ok
                    THEN ret = Ok(Envelope(v.tag,
                            LuaArray([i \in 1..Len(v.items) |->
                                        <<Num(i), enc(v.items[i]).v>>])))
                    ELSE ~ret.ok
              [] v.kind = "struct" ->
                    IF \A i \in 1..Len(v.fields) : enc(v.fields[i][2]).ok
                    THEN ret = Ok(Envelope(v.tag,
                            LuaArray([i \in 1..Len(v.fields) |->
                                        <<LuaString(v.fields[i][1]), enc(v.fields[i][2]).v>>])))
                    ELSE ~ret.ok

C8_Witness ==
    /\ pc = "encoded" /\ op = "to_lua" /\ arg.v.t = "variant" /\ arg.v.kind = "tuple"
    /\ ret.ok /\ Len(ret.v.p) = 1 /\ Len(ret.v.p[1][2].p) = 2

\* C9: character decode of a String succeeds exactly when the string has one
\* character; with k # 1 characters it fails with invalid length k.
C9_CharLength ==
    (pc = "done" /\ op = "from_lua" /\ arg.ty = TChar /\ lua.k = "str") =>
        IF Len(lua.s) = 1 THEN ret = Ok(VChar(lua.s[1]))
        ELSE ret = Err(InvalidLength(Len(lua.s)))

C9_Witness ==
    /\ pc = "done" /\ op = "from_lua" /\ arg.ty = TChar /\ lua.k = "str"
    /\ Len(lua.s) = MaxStrLen
    /\ ret = Err(InvalidLength(MaxStrLen))

FieldAbsent(p) == \A i \in 1..Len(p) : p[i][1] # LuaString(ValueName)
Skippable(p) == \A i \in 1..Len(p) : p[i][1].k = "str" /\ p[i][2].k \notin {"other", "anystr"}
UnitStructValue == VStruct(<< <<ValueName, VUnit>> >>)

\* C10 as stated: from any Table in which the unit field is absent, the
\* struct fails to decode when the field is required and decodes when the
\* field is defaulted or skipped.
C10_AsStated ==
    (pc = "done" /\ op = "from_lua" /\ arg.ty \in UnitStructs /\ FieldAbsent(lua.p)) =>
        IF arg.ty = FailUnitStruct THEN ~ret.ok ELSE ret.ok

\* C10 (amended): from a Table in which the unit field is absent, the struct
\* fails to decode when the field is required; when the field is defaulted
\* or skipped it decodes provided every key of the Table is a String and no
\* value is of a kind the self-describing decode rejects (the empty Table
\* included).
C10_UnitErasure ==
    (pc = "done" /\ op = "from_lua" /\ arg.ty \in UnitStructs /\ FieldAbsent(lua.p)) =>
        IF arg.ty = FailUnitStruct
        THEN ~ret.ok /\ (Skippable(lua.p) => ret = Err(MissingField(ValueName)))
        ELSE Skippable(lua.p) => ret = Ok(UnitStructValue)

C10_Witness ==
    /\ pc = "done" /\ op = "from_lua" /\ arg.ty = DefaultUnitStruct
    /\ lua = LuaArray(<< <<Str("z"), Str("a")>> >>)
    /\ ret = Ok(UnitStructValue)

\* C11: the scalar decodes take a value of exactly their kind: bool decode
\* succeeds iff the value is a Bool, string decode iff it is a String, float
\* decode iff it is a Number, and hand over that value; every other kind
\* fails with the type error.
C11_KindMatch ==
    /\ (pc = "done" /\ op = "deserialize") =>
        /\ arg.method = "deserialize_bool" =>
                ret = IF lua.k = "bool" THEN VisitBool(lua.b) ELSE Err(error(lua))
        /\ arg.method = "deserialize_str" =>
                ret = IF lua.k = "str" THEN VisitStr(lua.s) ELSE Err(error(lua))
        /\ arg.method = "deserialize_string" =>
                ret = IF lua.k = "str" THEN VisitString(lua.s) ELSE Err(error(lua))
        /\ arg.method = "deserialize_f64" =>
                ret = IF lua.k = "num" THEN VisitF64(lua.n) ELSE Err(error(lua))
        /\ arg.method = "deserialize_f32" =>
                IF lua.k = "num" THEN ret.ok /\ ret.visit = "f32"
                ELSE ret = Err(error(lua))
    /\ (pc = "done" /\ op = "from_lua" /\ arg.ty \in {TBool, TString, TF64}) =>
        ret = CASE arg.ty = TBool /\ lua.k = "bool" -> Ok(VBool(lua.b))
                [] arg.ty = TString /\ lua.k = "str" -> Ok(VStr(lua.s))
                [] arg.ty = TF64 /\ lua.k = "num" -> Ok(VF64(lua.n))
                [] OTHER -> Err(error(lua))

C11_Witness ==
    /\ pc = "done" /\ op = "from_lua" /\ arg.ty = TBool /\ lua = Num(1)
    /\ ret = Err(error(Num(1)))

\* C12: built without byte support, encoding bytes fails with an error for
\* every byte string, and decoding bytes or a byte buffer fails with an error
\* for every input of every kind; the result is an error value, never a
\* panic and never a value.
C12_BytesUnsupported ==
    /\ (pc = "encoded" /\ op = "to_lua" /\ arg.ty = TBytes) =>
            ret = Err(Custom("cannot serialize bytes; compile with 'base64-bytes'"))
    /\ (pc = "done" /\ op = "deserialize" /\ arg.method = "deserialize_bytes") =>
            ret = Err(Custom("cannot deserialize bytes; compile with 'base64-bytes'"))
    /\ (pc = "done" /\ op = "deserialize" /\ arg.method = "deserialize_byte_buf") =>
            ret = Err(Custom("cannot deserialize byte_buf; compile with 'base64-bytes'"))
    /\ (pc = "done" /\ op = "from_lua" /\ arg.ty \in {TBytes, TByteBuf}) =>
            /\ ~ret.ok
            /\ DOMAIN ret = {"ok", "e"}
            /\ ret.e.kind = "custom"

C12_Witness ==
    /\ pc = "done" /\ op = "from_lua" /\ arg.ty = TByteBuf /\ lua = Str("a")
    /\ ret = Err(Custom("cannot deserialize byte_buf; compile with 'base64-bytes'"))

Keys1toN(p) == \A i \in 1..Len(p) : p[i][1] = Num(i)

\* C13: after k successful element calls on a sequence accumulator the pairs
\* it holds have the keys Number(1) .. Number(k) in that order, and the
\* Table `end` produces passes is_vec; the same holds of the Tables to_lua
\* produces for sequences, tuples and the fields of tuple variants.
C13_SeqKeys ==
    /\ op = "serialize_seq" =>
        /\ Keys1toN(acc)
        /\ (accLog.call = "serialize_element" /\ ret.ok) =>
                Len(acc) = Len(accLog.before) + 1
        /\ pc = "done" => ret = Ok(LuaArray(acc)) /\ is_vec(acc, build) = Ok(acc)
    /\ (op = "to_lua" /\ pc = "encoded" /\ ret.ok) =>
        /\ arg.v.t \in {"seq", "tuple"} =>
                /\ Len(ret.v.p) = Len(arg.v.items)
                /\ Keys1toN(ret.v.p)
                /\ is_vec(ret.v.p, build) = Ok(ret.v.p)
        /\ (arg.v.t = "variant" /\ arg.v.kind = "tuple") =>
                /\ Len(ret.v.p[1][2].p) = Len(arg.v.items)
                /\ Keys1toN(ret.v.p[1][2].p)
                /\ is_vec(ret.v.p[1][2].p, build) = Ok(ret.v.p[1][2].p)

C13_Witness ==
    /\ op = "serialize_seq" /\ pc = "done"
    /\ Len(acc) = MaxLen /\ acc[MaxLen] = <<Num(MaxLen), LuaNil>>
    /\ ret = Ok(LuaArray(acc))

(***************************************************************************)
(* The opaque kind                                                         *)
(***************************************************************************)
\* the methods that hand the value on to the visitor without looking at it
\* (every value but Nil for deserialize_option)
Forwarding == {"deserialize_option", "deserialize_newtype_struct"}
\* the methods that fail before they look at the value
Unsupported == {"deserialize_bytes", "deserialize_byte_buf"}
OpaqueError == Err(InvalidType([u |-> "Other", what |-> "unserializable"]))

\* C14: the opaque kind is rejected with the type error that names it
\* ("unserializable") by every decode method that looks at the value: any,
\* the scalars, unit, sequence, tuple (whatever the arity), map, struct, enum,
\* identifier and ignored-any.  deserialize_option and
\* deserialize_newtype_struct hand the value on unchanged, and the consumer
\* of the inner value meets the same error: from_lua of the opaque value
\* returns that type error, and no native value, for every consumer.
C14_OpaqueRejected ==
    (pc = "done" /\ lua = LuaOther) =>
        CASE op \in {"deserialize_any", "deserialize_seq"} -> ret = OpaqueError
          [] op = "deserialize" ->
                (CASE arg.method = "deserialize_option" -> ret = VisitSome(LuaOther)
                   [] arg.method = "deserialize_newtype_struct" ->
                        ret = VisitNewtypeStruct(LuaOther)
                   [] arg.method \in Unsupported -> ~ret.ok
                   [] OTHER -> ret = OpaqueError)
          [] op = "from_lua" ->
                IF arg.ty.t \in {"bytes", "byte_buf"} THEN ~ret.ok
                ELSE ret = OpaqueError
          [] OTHER -> TRUE

\* an Option<IgnoredAny> consumer has been given the opaque value: the two
\* most permissive consumers together
C14_Witness ==
    /\ pc = "done" /\ op = "from_lua" /\ lua = LuaOther
    /\ arg.ty = TOption(TIgnored)
    /\ ret = OpaqueError

(***************************************************************************)
(* Failures of members                                                     *)
(***************************************************************************)
\* a member of the Table `value`, taken as the consumer `ty` takes it, fails
\* to decode
MemberFails(ty, value, bld) ==
    CASE ty.t \in {"option", "newtype"} ->
            /\ ty.t = "option" => value.k # "nil"
            /\ ~Deserialize(ty.of, value, bld).ok
      [] ty.t = "seq" /\ value.k = "tbl" ->
            /\ Keys1toN(value.p)
            /\ \E i \in 1..Len(value.p) : ~Deserialize(ty.of, value.p[i][2], bld).ok
      [] ty.t = "tuple" /\ value.k = "tbl" ->
            /\ Keys1toN(value.p) /\ Len(value.p) = Len(ty.elems)
            /\ \E i \in 1..Len(value.p) : ~Deserialize(ty.elems[i], value.p[i][2], bld).ok
      [] ty.t = "map" /\ value.k = "tbl" ->
            \E i \in 1..Len(value.p) : \/ ~Deserialize(ty.key, value.p[i][1], bld).ok
                                       \/ ~Deserialize(ty.val, value.p[i][2], bld).ok
      [] ty.t = "struct" /\ value.k = "tbl" ->
            \E i \in 1..Len(value.p) :
                /\ value.p[i][1].k = "str"
                /\ LET j == FieldIndex(ty.fields, value.p[i][1].s) IN
                   /\ j # 0
                   /\ ~Deserialize(ty.fields[j].ty, value.p[i][2], bld).ok
      [] ty.t = "enum" /\ value.k = "tbl" ->
            /\ Len(value.p) = 1 /\ value.p[1][1].k = "str"
            /\ LET j == VariantIndex(ty.variants, value.p[1][1].s)
                   payload == value.p[1][2]
               IN  /\ j # 0
                   /\ LET var == ty.variants[j] IN
                      (CASE var.kind = "unit" -> payload.k # "nil"
                         [] var.kind = "newtype" -> ~Deserialize(var.of, payload, bld).ok
                         [] var.kind = "tuple" ->
                                ~Deserialize(TTuple(var.elems), payload, bld).ok
                         [] var.kind = "struct" ->
                                ~Deserialize(TStruct(var.fields), payload, bld).ok)
      [] OTHER -> FALSE

\* C15: a failure of a member is the failure of the call.  When a value
\* directly inside the value given to to_lua fails to encode, to_lua returns
\* an error and no Lua value; when a member of the Table given to from_lua
\* (an element, a key or value of a pair, the value of a field, the payload
\* of a variant) fails to decode, from_lua returns an error and no native
\* value.  Members of members are covered by the members themselves.
C15_FailuresTerminal ==
    /\ (pc = "encoded" /\ op = "to_lua"
            /\ \E c \in ChildSet(arg.v) : ~to_lua(c, build).ok)
        => (~ret.ok /\ "v" \notin DOMAIN ret /\ lua = LuaNil)
    /\ (pc = "done" /\ op = "from_lua" /\ MemberFails(arg.ty, lua, build))
        => (~ret.ok /\ "v" \notin DOMAIN ret)

\* a sequence of enums whose first element decodes and whose second element
\* carries a payload that does not has been given to from_lua
C15_Witness ==
    /\ pc = "done" /\ op = "from_lua" /\ arg.ty = TSeq(ComplexEnum)
    /\ lua = Array(<<Tagged("B", Num(1)), Tagged("B", Str("a"))>>)
    /\ MemberFails(arg.ty, lua, build)
    /\ ~ret.ok

\* a struct whose newtype field holds an integer that does not encode has
\* been given to to_lua
C15_EncodeCase ==
    /\ pc = "encoded" /\ op = "to_lua" /\ arg.v.t = "struct"
    /\ \E c \in ChildSet(arg.v) : c.t = "newtype" /\ ~to_lua(c, build).ok
    /\ ~ret.ok

(***************************************************************************)
(* The array test                                                          *)
(***************************************************************************)
\* the outcome of is_vec as deserialize_any shows it: visit_seq over the Ok
\* pairs, visit_map over the Err pairs
IsVecOutcome(r) == IF r.visit = "seq" THEN "Ok" ELSE "Err"

TupleOutcome(p, len) ==
    IF Len(p) # len THEN Err(InvalidLength(Len(p)))
    ELSE IF Keys1toN(p) THEN VisitSeq(LuaSeqAccess(p))
    ELSE Err(InvalidType([u |-> "Map"]))

\* C17: a tuple or tuple-struct decode of a Table whose number of pairs is
\* not the arity fails with invalid_length of the number of pairs, whatever
\* the keys are; with the right number of pairs the Table is visited as a
\* sequence when its keys are 1..N in order and fails with the type error
\* naming a map otherwise.  The payload of a tuple variant is treated the
\* same way, and so is a tuple given to from_lua.
C17_TupleArity ==
    /\ (pc = "done" /\ op = "deserialize" /\ arg.method \in TupleMethods
            /\ lua.k = "tbl")
        => ret = TupleOutcome(lua.p, arg.len)
    /\ (pc = "done" /\ op = "from_lua" /\ arg.ty \in {PairTuple, PairEnum}
            /\ lua.k = "tbl")
        => LET p == IF arg.ty = PairTuple THEN lua.p ELSE lua.p[1][2].p
               o == TupleOutcome(p, 2)
           IN  IF ~o.ok THEN ret = o
               ELSE /\ ret.ok
                    /\ ret.v = IF arg.ty = PairTuple
                               THEN VTuple(<<VStr(<<"a">>), VStr(<<"b">>)>>)
                               ELSE VTupleVariant(<<"T">>, <<VStr(<<"a">>), VStr(<<"b">>)>>)

\* a map-shaped Table of three pairs has been given to a tuple variant of two
\* members: the length is reported, not the shape
C17_Witness ==
    /\ pc = "done" /\ op = "from_lua" /\ arg.ty = PairEnum
    /\ Len(lua.p[1][2].p) = 3 /\ ~Keys1toN(lua.p[1][2].p)
    /\ ret = Err(InvalidLength(3))

(***************************************************************************)
(* Sequences                                                               *)
(***************************************************************************)
\* the value stored at key j of the pairs p
AtKey(p, j) == (CHOOSE pr \in {p[i] : i \in 1..Len(p)} : pr[1] = Num(j))[2]
\* the number of calls in the log that yielded an element
Yielded == Cardinality({j \in 1..Len(yielded) : yielded[j].r.ok /\ yielded[j].r.v.some})

\* C18: deserialize_seq fails with the type error of the value for a value
\* that is no Table and with the type error naming a map for a Table whose
\* keys are not 1..N in order; any other Table is visited as a sequence.  The
\* accessor of a Table of N pairs yields, call after call, the value stored
\* at key 1, at key 2, ... at key N and then None; before the first call and
\* after every call size_hint is N less the number of elements yielded.
C18_SeqAccess ==
    /\ (pc = "done" /\ op = "deserialize_seq") =>
            ret = IF lua.k # "tbl" THEN Err(error(lua))
                  ELSE IF Keys1toN(lua.p) THEN VisitSeq(LuaSeqAccess(lua.p))
                  ELSE Err(InvalidType([u |-> "Map"]))
    /\ (pc = "done" /\ op = "from_lua" /\ arg.ty = TSeq(TString) /\ lua \in TableSamples) =>
            IF Keys1toN(lua.p)
            THEN ret = Ok(VSeq([j \in 1..Len(lua.p) |-> AnyOf(AtKey(lua.p, j))]))
            ELSE ret = Err(InvalidType([u |-> "Map"]))
    /\ handed.kind = "seq" =>
            LET N == Len(lua.p) IN
            /\ Keys1toN(lua.p)
            /\ \A j \in 1..Len(yielded) :
                /\ yielded[j].r = IF j <= N THEN Ok(OptSome(AnyOf(AtKey(lua.p, j))))
                                  ELSE Ok(OptNone)
                /\ yielded[j].hint = IF j <= N THEN N - j ELSE 0
            /\ Seq_size_hint(handed.a) = N - Yielded

\* the accessor of a Table of three pairs has yielded its three elements and
\* then the end of the sequence
C18_Witness ==
    /\ pc = "done" /\ op = "deserialize_seq" /\ handed.kind = "seq"
    /\ Len(lua.p) = 3 /\ Len(yielded) = 4
    /\ Yielded = 3
    /\ yielded[3].r = Ok(OptSome(VStr(<<"c">>)))
    /\ yielded[4].r = Ok(OptNone)

(***************************************************************************)
(* Maps                                                                    *)
(***************************************************************************)
\* the pairs p as a consumer of (any key, string value) pairs collects them
PairsOf(p) == [i \in 1..Len(p) |-> <<AnyOf(p[i][1]), AnyOf(p[i][2])>>]

\* C19: deserialize_map and deserialize_struct look at no key before they
\* call visit_map: every Table, array-shaped, map-shaped or empty, is handed
\* to the visitor as a map over its pairs in the order of the Table, and a
\* value that is no Table fails with its type error.  A map decoded by
\* from_lua holds the pairs in that order, the keys of an array-shaped Table
\* being the numbers 1..N.
C19_MapAnyShape ==
    /\ (pc = "done" /\ op = "deserialize" /\ arg.method \in MapMethods) =>
            ret = IF lua.k = "tbl" THEN VisitMap(LuaMapAccess(lua.p, OptNone))
                  ELSE Err(error(lua))
    /\ (pc = "done" /\ op = "from_lua" /\ arg.ty = AnyMap) =>
            IF lua \in MapTables THEN ret = Ok(VMap(PairsOf(lua.p)))
            ELSE lua.k # "tbl" => ret = Err(error(lua))

\* the array-shaped Table of two pairs has been decoded as a map keyed by
\* 1 and 2
C19_Witness ==
    /\ pc = "done" /\ op = "from_lua" /\ arg.ty = AnyMap
    /\ lua.k = "tbl" /\ Len(lua.p) = 2 /\ Keys1toN(lua.p)
    /\ ret.ok
    /\ <<ret.v.entries[1][1], ret.v.entries[2][1]>>
            = <<VF64(FromNat(1)), VF64(FromNat(2))>>

(***************************************************************************)
(* The map accessor                                                        *)
(***************************************************************************)
\* every next_value_seed of the log comes directly after a next_key_seed that
\* returned a key
Disciplined ==
    \A j \in 1..Len(yielded) :
        yielded[j].call = "value" =>
            /\ j > 1
            /\ yielded[j - 1].call = "key"
            /\ yielded[j - 1].r.ok /\ yielded[j - 1].r.v.some

\* the number of the pair that call j of the log is about: the calls for a
\* key or an entry up to j
PairOf(j) == Cardinality({i \in 1..j : yielded[i].call \in {"key", "entry"}})

\* C20: in a sequence of calls of the map accessor in which every
\* next_value_seed comes directly after a next_key_seed that returned a key,
\* the m-th call for a key or an entry yields the key, or the key and the
\* value, of the m-th pair of the Table (None once the pairs are used up), so
\* no pair is yielded twice and none is passed over, and a next_value_seed
\* yields the value of the pair whose key the call before it yielded.
C20_MapPairing ==
    (op = "visit_map" /\ pc \in {"done", "panicked"} /\ Disciplined) =>
        \A j \in 1..Len(yielded) :
            LET m == PairOf(j)
                N == Len(lua.p)
                c == yielded[j]
            IN  CASE c.call = "key" ->
                        c.r = IF m <= N THEN Ok(OptSome(AnyOf(lua.p[m][1])))
                              ELSE Ok(OptNone)
                  [] c.call = "entry" ->
                        c.r = IF m <= N
                              THEN Ok(OptSome(<<AnyOf(lua.p[m][1]), AnyOf(lua.p[m][2])>>))
                              ELSE Ok(OptNone)
                  [] c.call = "value" -> c.r = Ok(AnyOf(lua.p[m][2]))

\* a Table of three pairs has been walked to its end: the first pair by key
\* and value, the second as an entry, the third by key and value
C20_Witness ==
    /\ op = "visit_map" /\ pc = "done" /\ Len(lua.p) = 3
    /\ Len(yielded) = 6
    /\ <<yielded[1].call, yielded[2].call, yielded[3].call, yielded[4].call,
         yielded[5].call, yielded[6].call>>
            = <<"key", "value", "entry", "key", "value", "key">>
    /\ yielded[5].r = Ok(VStr(<<"c">>))
    /\ yielded[6].r = Ok(OptNone)

(***************************************************************************)
(* C21: a type-undirected decode (deserialize_any, and                     *)
(* deserialize_ignored_any, which is the same call) dispatches on the kind *)
(* of the Lua value alone: a String is visited as a string, a Number as an *)
(* f64, a Bool as a bool, Nil as unit, a non-UTF-8 string is a type error, *)
(* and a Table is visited as a sequence exactly when is_vec accepts its    *)
(* pairs (a Table with no pairs is an empty sequence) and as a map         *)
(* otherwise.                                                              *)
(***************************************************************************)
AnyCall ==
    /\ pc = "done"
    /\ \/ op = "deserialize_any"
       \/ op = "deserialize" /\ arg.method = "deserialize_ignored_any"

C21_AnyDispatch ==
    AnyCall =>
        /\ lua.k = "str" => ret = VisitString(lua.s)
        /\ lua.k = "num" => ret = VisitF64(lua.n)
        /\ lua.k = "bool" => ret = VisitBool(lua.b)
        /\ lua.k = "nil" => ret = VisitUnit
        /\ lua.k = "anystr" => ~ret.ok /\ ret.e.kind = "invalid_type"
        /\ lua.k = "tbl" =>
            /\ ret.ok
            /\ ret.visit = IF is_vec(lua.p, build).ok THEN "seq" ELSE "map"
            /\ lua.p = <<>> => ret = VisitSeq(LuaSeqAccess(<<>>))

C21_Witness ==
    /\ pc = "done" /\ op = "deserialize" /\ arg.method = "deserialize_ignored_any"
    /\ lua = LuaArray(<<>>)
    /\ ret = VisitSeq(LuaSeqAccess(<<>>))

(***************************************************************************)
(* C22: decoding a unit variant succeeds exactly when the payload is Nil:  *)
(* the bare String tag and the one-entry envelope whose value is Nil both  *)
(* give the unit variant, and an envelope whose value is anything else is  *)
(* a type error about that value.                                          *)
(***************************************************************************)
C22_UnitPayload ==
    (pc = "done" /\ op = "from_lua" /\ arg.ty = ComplexEnum) =>
        /\ lua = Str("A") => ret = Ok(VUnitVariant(<<"A">>))
        /\ (lua.k = "tbl" /\ Len(lua.p) = 1 /\ lua.p[1][1] = Str("A")) =>
                ret = IF lua.p[1][2] = LuaNil THEN Ok(VUnitVariant(<<"A">>))
                      ELSE Err(error(lua.p[1][2]))
        /\ ret = Ok(VUnitVariant(<<"A">>)) =>
                \/ lua = Str("A")
                \/ lua = LuaArray(<< <<Str("A"), LuaNil>> >>)

C22_Witness ==
    /\ pc = "done" /\ op = "from_lua" /\ arg.ty = ComplexEnum
    /\ lua = LuaArray(<< <<Str("A"), Num(1)>> >>)
    /\ ret = Err(error(Num(1)))

(***************************************************************************)
(* C23: the map and struct builders are incremental and keep the order of  *)
(* the calls.  Every successful serialize_entry (serialize_field) appends  *)
(* exactly the pair (encoding of its key, encoding of its value) to the    *)
(* pairs held before it, and end returns the pairs held as they are; so    *)
(* after k successful calls and end the Table has exactly k pairs, the     *)
(* j-th being the encodings of the j-th key and value.  Pairs are never    *)
(* merged, deduplicated, reordered or dropped, Nil-valued ones included.   *)
(***************************************************************************)
EntryPair(key, value) == <<to_lua(key, build).v, to_lua(value, build).v>>

C23_EntriesInOrder ==
    /\ op = "serialize_map" =>
        /\ (accLog.call = "serialize_entry" /\ ret.ok) =>
                acc = Append(accLog.before, EntryPair(arg.key, arg.value))
        /\ pc = "done" => ret = Ok(LuaArray(accLog.before)) /\ lua = LuaArray(accLog.before)
    /\ (op = "to_lua" /\ pc = "encoded" /\ ret.ok) =>
        /\ arg.v.t = "map" =>
                ret.v = LuaArray([j \in 1..Len(arg.v.entries) |->
                                    EntryPair(arg.v.entries[j][1], arg.v.entries[j][2])])
        /\ arg.v.t = "struct" =>
                ret.v = LuaArray([j \in 1..Len(arg.v.fields) |->
                                    EntryPair(VStr(arg.v.fields[j][1]), arg.v.fields[j][2])])

\* two entries under the same key, the first with a Nil value, then end
C23_Witness ==
    /\ op = "serialize_map" /\ pc = "done"
    /\ lua = LuaArray(<< <<Str("a"), LuaNil>>, <<Str("a"), LuaBoolean(TRUE)>> >>)

C25_IntValueKept ==
    /\ (pc = "done" /\ op = "from_lua" /\ arg.ty.t = "int" /\ lua.k = "num" /\ ret.ok) =>
            ret.v = VInt(arg.ty.ty, lua.n)
    /\ (pc = "done" /\ op = "deserialize" /\ lua.k = "num" /\ ret.ok
            /\ arg.method \in {"deserialize_" \o T : T \in IntTypes}) =>
            ret.n = lua.n

(***************************************************************************)
(* C27: on a map builder, serialize_key followed at once by                *)
(* serialize_value is one serialize_entry.                                 *)
(***************************************************************************)
\* a serialize_value call made right after a successful serialize_key
KeyThenValue ==
    /\ op = "serialize_map"
    /\ accLog.call = "serialize_value"
    /\ accLog.prior.call = "serialize_key"

\* the one serialize_entry call that matches the two calls
AsEntry ==
    Map_serialize_entry(accLog.prior.before,
                        Serialize(accLog.prior.arg.key, build),
                        Serialize(arg.value, build))

\* serialize_value keeps the number of pairs, every key, and every pair
\* but the last
ValueSlotOnly ==
    (op = "serialize_map" /\ accLog.call = "serialize_value") =>
        /\ Len(acc) = Len(accLog.before)
        /\ \A i \in 1..Len(acc) :
                /\ acc[i][1] = accLog.before[i][1]
                /\ i < Len(acc) => acc[i] = accLog.before[i]

\* C27 as stated: serialize_key followed immediately by serialize_value
\* leaves the pairs held as one serialize_entry with the same key and value
\* does, and serialize_value changes only the value slot of the last pair.
C27_AsStated ==
    /\ KeyThenValue => acc = AsEntry.acc
    /\ ValueSlotOnly

\* C27 (amended): when the value encodes, the two calls leave the pairs and
\* the result of the one serialize_entry; when the value does not encode,
\* both ways return the same error, but the two calls leave the pair
\* (key, Nil) behind where serialize_entry leaves the pairs as they were.
\* serialize_value changes only the value slot of the last pair.
C27_KeyValueIsEntry ==
    /\ KeyThenValue =>
        /\ ret = AsEntry.r
        /\ ret.ok => acc = AsEntry.acc
        /\ ~ret.ok =>
              /\ AsEntry.acc = accLog.prior.before
              /\ acc = Append(accLog.prior.before,
                              <<to_lua(accLog.prior.arg.key, build).v, LuaNil>>)
    /\ ValueSlotOnly

C27_Witness ==
    /\ KeyThenValue /\ ret.ok
    /\ acc = << <<Str("a"), LuaNil>>, <<LuaNumber(FromNat(1)), LuaBoolean(TRUE)>> >>

(***************************************************************************)
(* C26: a bare String given to enum decode produces a value only when the  *)
(* variant the tag selects is a unit variant; asked for a newtype, tuple   *)
(* or struct variant, the decode of a String fails, whatever the type of   *)
(* the payload.                                                            *)
(***************************************************************************)
C26_StringIsUnitOnly ==
    (pc = "done" /\ op = "from_lua" /\ arg.ty.t = "enum" /\ lua.k = "str" /\ ret.ok) =>
        ret.v.kind = "unit"

(***************************************************************************)
(* C28: next_value_seed on the map accessor never aborts.  Called with no  *)
(* key pending (before any next_key_seed, twice in a row, after            *)
(* next_key_seed reported the end of the map, or after next_entry_seed) it *)
(* returns an error value and does not panic; and when next_key_seed is    *)
(* called twice with no value call in between, the value of the first of   *)
(* the two pairs is not silently lost: the value call that follows returns *)
(* that value or an error.                                                 *)
(***************************************************************************)
\* the j-th call is a value call that no key call precedes directly
NoKeyPending(j) ==
    /\ yielded[j].call = "value"
    /\ \/ j = 1
       \/ yielded[j - 1].call # "key"
       \/ ~yielded[j - 1].r.ok
       \/ ~yielded[j - 1].r.v.some

\* the calls j and j + 1 are key calls that both gave a key, and a value
\* call follows
KeyKeyValue(j) ==
    /\ j + 2 <= Len(yielded)
    /\ yielded[j].call = "key" /\ yielded[j].r.ok /\ yielded[j].r.v.some
    /\ yielded[j + 1].call = "key" /\ yielded[j + 1].r.ok /\ yielded[j + 1].r.v.some
    /\ yielded[j + 2].call = "value"

C28_ValueNeverAborts ==
    op = "visit_map" =>
        /\ pc # "panicked"
        /\ \A j \in 1..Len(yielded) :
            /\ "panic" \notin DOMAIN yielded[j].r
            /\ NoKeyPending(j) => ~yielded[j].r.ok
            /\ KeyKeyValue(j) =>
                    \/ ~yielded[j + 2].r.ok
                    \/ yielded[j + 2].r = Ok(AnyOf(lua.p[PairOf(j)][2]))

(***************************************************************************)
(* C29: serialize_value on the map builder never aborts and never          *)
(* overwrites a completed entry.  Called while the builder holds no pair   *)
(* it returns an error value and does not panic; and called a second time  *)
(* after one serialize_key it leaves the value stored by the first call in *)
(* place.                                                                  *)
(***************************************************************************)
\* a serialize_value call made right after another serialize_value call
\* that stored its value
ValueTwice ==
    /\ op = "serialize_map"
    /\ accLog.call = "serialize_value"
    /\ accLog.prior.call = "serialize_value"
    /\ accLog.before # <<>>

C29_ValueNeverClobbers ==
    /\ (op = "serialize_map" /\ accLog.call = "serialize_value") =>
        /\ "panic" \notin DOMAIN ret
        /\ accLog.before = <<>> => ~ret.ok
    /\ ValueTwice => acc[Len(acc)][2] = accLog.before[Len(acc)][2]

(***************************************************************************)
(* C24: conversions in flight together are independent.  When the builder *)
(* steps of two encode calls, or the accessor steps of two decode calls,   *)
(* are interleaved in any order, every call ends with the result it gives  *)
(* when it runs alone; and while a call is under way, the pairs its        *)
(* builder holds and the members its visitor has got are those of the call *)
(* running alone, whatever the other call has done.                        *)
(***************************************************************************)
Alone(c) ==
    IF c.op = "to_lua" THEN to_lua(c.v, build)
    ELSE from_lua(c.ty, c.value, build)

\* what the call holds when it runs alone and has dealt with n members
AloneHeld(c, n) ==
    CASE c.op = "to_lua" /\ c.v.t = "seq" ->
            SerElements(SubSeq(c.v.items, 1, n), serialize_seq, build)
      [] c.op = "to_lua" /\ c.v.t = "map" ->
            SerEntries(SubSeq(c.v.entries, 1, n), serialize_map, build)
      [] c.op = "from_lua" ->
            from_lua(c.ty, LuaArray(SubSeq(c.value.p, 1, n)), build)

C24_Independent ==
    op = "pair" =>
        \A i \in 1..2 :
            /\ pc[i] = "done" => ret[i] = Alone(arg[i])
            /\ pc[i] = "building" => Ok(acc[i]) = AloneHeld(arg[i], Len(acc[i]))
            /\ pc[i] = "visiting" =>
                    Ok(VSeq(yielded[i])) = AloneHeld(arg[i], Len(yielded[i]))

\* the first call has ended with a Table of two members while the second
\* one is half way through a decode
C24_Witness ==
    /\ op = "pair"
    /\ pc = <<"done", "visiting">>
    /\ arg[1].op = "to_lua" /\ ret[1].ok /\ Len(ret[1].v.p) = 2
    /\ Len(arg[2].value.p) = 2 /\ Len(yielded[2]) = 1

====
